---- MODULE Spec2Model ----
(***************************************************************************)
(* Incident pipeline of agentic-sre-responder: Orchestrator (handle_alert, *)
(* the five stages, analyze_incident), the Store's durable tier, the two   *)
(* evidence collectors and the recommendation providers.                   *)
(*                                                                         *)
(* Text built with f-strings is a tuple of its pieces; confidences are     *)
(* hundredths (0.4 is 40).                                                 *)
(***************************************************************************)
EXTENDS Integers, Sequences, FiniteSets, TLC

\* Number of alerts ingested in one behaviour (each gets a fresh uuid4).
MaxIncidents == 1

Ids == 1..MaxIncidents

\* A key that is missing from a JSON object, and JSON null / Python None.
Absent == "<absent>"
Null == "<null>"

\* Python truthiness of an optional string, and `a or b`.
Truthy(v) == v \notin {Absent, Null, ""}

Or2(a, b) == IF Truthy(a) THEN a ELSE b

\* ------------------------------------------------------------------------
\* Alert payloads (the JSON object posted to /alert)
\* ------------------------------------------------------------------------
\* tag: the key is missing ("absent"), is null ("null") or holds an object.
EmptyLabels ==
    [tag |-> "map", alertname |-> Absent, incident_type |-> Absent,
     severity |-> Absent, namespace |-> Absent]

EmptyAnnotations ==
    [tag |-> "map", incident_type |-> Absent, summary |-> Absent,
     description |-> Absent, message |-> Absent, workload |-> Absent]

AbsentLabels == [EmptyLabels EXCEPT !.tag = "absent"]

NullLabels == [EmptyLabels EXCEPT !.tag = "null"]

AbsentAnnotations == [EmptyAnnotations EXCEPT !.tag = "absent"]

NullAnnotations == [EmptyAnnotations EXCEPT !.tag = "null"]

\* The alerts the environment may post.
InputPayloads ==
    { \* the scenario of the specification
      [labels |-> [EmptyLabels EXCEPT !.alertname = "crashloop",
                                      !.severity = "high",
                                      !.namespace = "ns-a"],
       annotations |-> [EmptyAnnotations EXCEPT !.summary = "pod crash looping"]],
      \* {}
      [labels |-> AbsentLabels, annotations |-> AbsentAnnotations],
      \* {"labels": null}
      [labels |-> NullLabels, annotations |-> AbsentAnnotations],
      \* {"labels": {"alertname": "rollout_failure"}, "annotations": null}
      [labels |-> [EmptyLabels EXCEPT !.alertname = "rollout_failure"],
       annotations |-> NullAnnotations],
      \* {"labels": {"incident_type": "High_Latency", "severity": null}}
      [labels |-> [EmptyLabels EXCEPT !.incident_type = "High_Latency",
                                      !.severity = Null],
       annotations |-> AbsentAnnotations],
      \* {"labels": {"alertname": null, "incident_type": "High_Latency",
      \*             "severity": "low"},
      \*  "annotations": {"description": "p95 above 3s", "workload": "app-a"}}
      [labels |-> [EmptyLabels EXCEPT !.alertname = Null,
                                      !.incident_type = "High_Latency",
                                      !.severity = "low"],
       annotations |-> [EmptyAnnotations EXCEPT !.description = "p95 above 3s",
                                                !.workload = "app-a"]] }

\* payload.get(key, {}) or {}
MapOr(m, empty) == IF m.tag = "map" THEN m ELSE empty

\* store.summarize_alert: (incident_type, summary)
summarize_alert(payload) ==
    LET labels == MapOr(payload.labels, EmptyLabels)
        annotations == MapOr(payload.annotations, EmptyAnnotations)
        incident_type ==
            Or2(labels.alertname,
                Or2(labels.incident_type,
                    Or2(annotations.incident_type, "unknown")))
        summary ==
            IF Truthy(annotations.summary) THEN <<annotations.summary>>
            ELSE IF Truthy(annotations.description) THEN <<annotations.description>>
            ELSE IF Truthy(annotations.message) THEN <<annotations.message>>
            ELSE <<"Incident triggered: ", incident_type>>
    IN  [incident_type |-> incident_type, summary |-> summary]

\* payload.get("labels", {}).get("severity", "unknown") raises AttributeError
\* on a null labels value; a null severity fails IncidentReport's validation
\* (severity: str).
SeverityRaises(payload) ==
    \/ payload.labels.tag = "null"
    \/ /\ payload.labels.tag = "map"
       /\ payload.labels.severity = Null

SeverityOf(payload) ==
    IF payload.labels.tag = "absent" THEN "unknown"
    ELSE IF payload.labels.severity = Absent THEN "unknown"
    ELSE payload.labels.severity

\* A JSON object with neither key is {} and falsy (`if report.raw_alert`).
RawAlertTruthy(payload) ==
    payload.labels.tag # "absent" \/ payload.annotations.tag # "absent"

\* ------------------------------------------------------------------------
\* Report model (app/models.py)
\* ------------------------------------------------------------------------
Evidence(source, detail, severity) ==
    [source |-> source, detail |-> detail, severity |-> severity]

RootCauseHypothesis(hypothesis, confidence) ==
    [hypothesis |-> hypothesis, confidence |-> confidence]

RecommendedAction(action, risk, confidence) ==
    [action |-> action, risk |-> risk, confidence |-> confidence]

\* timestamp is a reading of the clock, set by Stamp.
TimelineEvent(stage, status) == [stage |-> stage, status |-> status, timestamp |-> 0]

\* StageTiming; completed_at is None until the stage sets it (completed
\* tells whether it has). started_at and completed_at are readings of the
\* clock, set by Stamp.
StageTiming(stage) ==
    [stage |-> stage, completed |-> FALSE, started_at |-> 0, completed_at |-> 0]

Statuses == <<"new", "investigating", "recommended", "validated">>

\* No report: an unused slot, or get_incident_report's None.
NoReport == [kind |-> "none"]

\* kind "model" is an IncidentReport instance, kind "dict" the plain dict
\* that json.loads returns. created_at is a reading of the clock, set by
\* Stamp.
IncidentReport(incident_id, correlation_id, payload) ==
    [kind |-> "model",
     incident_id |-> incident_id,
     correlation_id |-> correlation_id,
     status |-> "new",
     incident_type |-> summarize_alert(payload).incident_type,
     severity |-> SeverityOf(payload),
     summary |-> summarize_alert(payload).summary,
     created_at |-> 0,
     timeline |-> <<TimelineEvent("ingestion", "completed")>>,
     evidence |-> <<>>,
     root_cause_hypotheses |-> <<>>,
     recommended_actions |-> <<>>,
     stage_timings |-> <<>>,
     links |-> <<>>,
     raw_alert |-> payload]

\* report.stage_timings and the other fields are read as attributes, which a
\* dict does not have (AttributeError).
HasAttributes(report) == report.kind = "model"

\* ------------------------------------------------------------------------
\* Stage bookkeeping shared by the five stages
\* ------------------------------------------------------------------------
\* stage = StageTiming(...); report.stage_timings.append(stage);
\* report.timeline.append(TimelineEvent(stage, "started"))
StageStarted(report, stage) ==
    [report EXCEPT !.stage_timings = Append(@, StageTiming(stage)),
                   !.timeline = Append(@, TimelineEvent(stage, "started"))]

\* A stage that sets completed_at and appends no completed marker.
StageCompletedWithoutMarker(report, stage) ==
    [report EXCEPT !.stage_timings[Len(report.stage_timings)].completed = TRUE]

\* stage.completed_at = report.updated_at (the entry appended by StageStarted
\* is the same object); report.timeline.append(TimelineEvent(stage, "completed"))
StageCompleted(report, stage) ==
    [report EXCEPT !.stage_timings[Len(report.stage_timings)].completed = TRUE,
                   !.timeline = Append(@, TimelineEvent(stage, "completed"))]

\* The clock is read in ticks; a second has TicksPerSecond ticks.
TicksPerSecond == 2

\* StageTiming.duration_ms: None (the empty tuple) while completed_at is
\* None, else int(delta.total_seconds() * 1000), which truncates towards 0.
duration_ms(timing) ==
    IF ~timing.completed THEN <<>>
    ELSE LET delta == timing.completed_at - timing.started_at
         IN  IF delta >= 0
             THEN <<(delta * 1000) \div TicksPerSecond>>
             ELSE <<0 - ((0 - delta) * 1000) \div TicksPerSecond>>

\* A stage that takes completed_at from the report's creation time.
StampCompletedAtCreation(before, after, now) ==
    LET created_at == IF before = NoReport THEN now ELSE before.timeline[1].timestamp
    IN  [after EXCEPT
            !.created_at = IF before = NoReport THEN now ELSE @,
            !.timeline = [k \in DOMAIN after.timeline |->
                             IF before = NoReport \/ k > Len(before.timeline)
                             THEN [after.timeline[k] EXCEPT !.timestamp = now]
                             ELSE after.timeline[k]],
            !.stage_timings =
                [k \in DOMAIN after.stage_timings |->
                    IF before = NoReport \/ k > Len(before.stage_timings)
                    THEN [after.stage_timings[k] EXCEPT
                             !.started_at = now, !.completed_at = created_at]
                    ELSE [after.stage_timings[k] EXCEPT !.completed_at = created_at]]]

\* now_utc() as a step of a stage reads it: created_at of a report the step
\* created, the timeline events the step appended, the started_at of the timing entry it appended and the
\* completed_at of the entry it completed carry the reading `now`.
Stamp(before, after, now) ==
    LET events == IF before = NoReport THEN 0 ELSE Len(before.timeline)
        timings == IF before = NoReport THEN <<>> ELSE before.stage_timings
        entry(k) == after.stage_timings[k]
    IN  [after EXCEPT
            !.created_at = IF before = NoReport THEN now ELSE @,
            !.timeline = [k \in DOMAIN after.timeline |->
                             IF k > events
                             THEN [after.timeline[k] EXCEPT !.timestamp = now]
                             ELSE after.timeline[k]],
            !.stage_timings =
                [k \in DOMAIN after.stage_timings |->
                    IF k > Len(timings)
                    THEN [entry(k) EXCEPT
                             !.started_at = now,
                             !.completed_at = IF entry(k).completed THEN now ELSE 0]
                    ELSE IF entry(k).completed /\ ~timings[k].completed
                    THEN [entry(k) EXCEPT !.completed_at = now]
                    ELSE entry(k)]]

\* ------------------------------------------------------------------------
\* Triage (app/agents/triage.py)
\* ------------------------------------------------------------------------
\* A triage that states the severity as it stands, empty or not.
triage_alert_raw_severity(report) ==
    <<Evidence("triage", <<"Incident severity: ", report.severity>>, "info"),
      Evidence("triage", <<"Incident type: ", report.incident_type>>, "info")>>

\* severity = report.severity or "unknown"; two Evidence items, source
\* "triage".
triage_alert(report) ==
    <<Evidence("triage", <<"Incident severity: ", Or2(report.severity, "unknown")>>, "info"),
      Evidence("triage", <<"Incident type: ", report.incident_type>>, "info")>>

\* ------------------------------------------------------------------------
\* Collectors (app/agents/k8s_investigator.py, deploy_investigator.py)
\* ------------------------------------------------------------------------
InvestigationResult(evidence, links) ==
    [raised |-> FALSE, evidence |-> evidence, links |-> links]

\* The collector's coroutine ended with an exception instead of a result.
CollectorRaised == [raised |-> TRUE, evidence |-> <<>>, links |-> <<>>]

\* str.lower() on the incident types that occur.
Lower(s) == IF s = "High_Latency" THEN "high_latency" ELSE s

_inject_demo_evidence(report) ==
    LET incident_type == Lower(report.incident_type)
    IN  IF incident_type = "crashloop" THEN
            <<Evidence("kubernetes", <<"Pod app-a is in CrashLoopBackOff with restart count > 5">>, "error"),
              Evidence("container", <<"Container startup failed due to missing required env var APP_A_REQUIRED">>, "error"),
              Evidence("logs", <<"Application logs: ValueError: APP_A_REQUIRED environment variable not set">>, "error")>>
        ELSE IF incident_type = "rollout_failure" THEN
            <<Evidence("deployment", <<"Deployment app-b rollout failed: ImagePullBackOff">>, "error"),
              Evidence("kubernetes", <<"ReplicaSet app-b has 0 available replicas out of 1 desired">>, "error"),
              Evidence("events", <<"Failed to pull image demo-app-b:doesnotexist">>, "error")>>
        ELSE IF incident_type = "high_latency" THEN
            <<Evidence("application", <<"High request latency detected (>3s p95) for app-a service">>, "warning"),
              Evidence("config", <<"ConfigMap app-a-config has LATENCY_MODE=on">>, "warning"),
              Evidence("logs", <<"Application logs indicate artificial latency injection enabled">>, "info")>>
        ELSE <<>>

\* labels = report.raw_alert.get("labels", {}) if report.raw_alert else {};
\* labels.get("namespace") or "default"
_extract_namespace(report) ==
    IF RawAlertTruthy(report.raw_alert) /\ report.raw_alert.labels.tag = "map"
    THEN Or2(report.raw_alert.labels.namespace, "default")
    ELSE "default"

_kubectl_links(namespace) ==
    << <<"kubectl get pods -n ", namespace>>,
       <<"kubectl get events -n ", namespace, " --sort-by=.lastTimestamp">>,
       <<"kubectl describe deployment -n ", namespace>> >>

\* What the cluster does during one k8s_investigation call:
\*   no_config  neither the in-cluster nor the kube config loads
\*   api_error  every list call raises ApiException
\*   conn_error the first list call raises an exception that is not an
\*              ApiException (the API server cannot be reached)
\*   crashing   every call answers; one pod waits in CrashLoopBackOff
K8sEnvs == {"no_config", "api_error", "conn_error", "crashing"}

\* _collect_pod_status .. _collect_pod_logs, in the order k8s_investigation
\* extends its evidence list.
_collect_cluster(cluster) ==
    IF cluster = "api_error" THEN
        <<Evidence("k8s", <<"Failed to list pods: ", "ApiException">>, "error"),
          Evidence("k8s", <<"Failed to list events: ", "ApiException">>, "error"),
          Evidence("k8s", <<"Failed to list deployments: ", "ApiException">>, "error"),
          Evidence("k8s", <<"Failed to list nodes: ", "ApiException">>, "error"),
          Evidence("k8s", <<"Failed to list HPA: ", "ApiException">>, "error")>>
    ELSE
        <<Evidence("k8s", <<"Pod app-a status=Running restarts=6 reason=", "CrashLoopBackOff">>, "warning"),
          Evidence("deployment", <<"Deployment app-a desired=1 available=0">>, "warning")>>

k8s_investigation(report, cluster) ==
    IF cluster = "no_config" THEN
        InvestigationResult(
            <<Evidence("k8s", <<"Failed to load Kubernetes config">>, "error")>>, <<>>)
    ELSE IF cluster = "conn_error" THEN CollectorRaised
    ELSE InvestigationResult(
            _collect_cluster(cluster) \o _inject_demo_evidence(report),
            _kubectl_links(_extract_namespace(report)))

\* report.raw_alert.get("annotations", {}).get("workload") raises
\* AttributeError when the alert carries "annotations": null.
deploy_investigation(report) ==
    LET raw == report.raw_alert
        workload ==
            IF RawAlertTruthy(raw) /\ raw.annotations.tag = "map"
            THEN raw.annotations.workload ELSE Absent
        namespace ==
            IF RawAlertTruthy(raw) /\ raw.labels.tag = "map" /\ raw.labels.namespace # Absent
            THEN raw.labels.namespace ELSE "default"
    IN  IF RawAlertTruthy(raw) /\ (raw.annotations.tag = "null" \/ raw.labels.tag = "null")
        THEN CollectorRaised
        ELSE IF Truthy(workload) THEN
            InvestigationResult(
                <<Evidence("deployment", <<"Workload hint from alert annotations: ", workload>>, "info")>>,
                << <<"kubectl describe deployment ", workload, " -n ", namespace>>,
                   <<"kubectl rollout status deployment/", workload, " -n ", namespace>> >>)
        ELSE
            InvestigationResult(
                <<Evidence("deployment", <<"No workload hint in alert; check recent deployments">>, "info")>>,
                <<>>)

\* ------------------------------------------------------------------------
\* Analysis (orchestrator._derive_hypotheses)
\* ------------------------------------------------------------------------
\* `signature in text` for the pieces of text that occur.
PieceContains(piece, signature) ==
    IF signature = "CrashLoopBackOff"
    THEN piece \in {"CrashLoopBackOff",
                    "Pod app-a is in CrashLoopBackOff with restart count > 5"}
    ELSE piece \in {"ImagePullBackOff",
                    "Deployment app-b rollout failed: ImagePullBackOff"}

Contains(detail, signature) ==
    \E k \in DOMAIN detail : PieceContains(detail[k], signature)

RECURSIVE MatchSignatures(_)
MatchSignatures(evidence) ==
    IF evidence = <<>> THEN <<>>
    ELSE (IF Contains(Head(evidence).detail, "CrashLoopBackOff")
          THEN <<RootCauseHypothesis("Pod crash loops detected", 60)>> ELSE <<>>)
      \o (IF Contains(Head(evidence).detail, "ImagePullBackOff")
          THEN <<RootCauseHypothesis("Image pull failures", 50)>> ELSE <<>>)
      \o MatchSignatures(Tail(evidence))

_derive_hypotheses(evidence) ==
    IF MatchSignatures(evidence) = <<>>
    THEN <<RootCauseHypothesis("Investigate recent changes in workload", 30)>>
    ELSE MatchSignatures(evidence)

\* ------------------------------------------------------------------------
\* Recommendation providers (app/providers, app/agents/remediation_advisor.py)
\* ------------------------------------------------------------------------
\* LLM_MAX_RETRIES when the variable is not set.
DefaultMaxRetries == 2

\* generate_recommendations returned None.
NoResult == [kind |-> "none"]

\* root_cause_hypotheses None is the empty tuple: only its truthiness is read.
RecommendationResult(actions, hypotheses) ==
    [kind |-> "result", recommended_actions |-> actions,
     root_cause_hypotheses |-> hypotheses]

\* A mock provider whose result has hypotheses and no actions.
MockResultWithoutActions ==
    RecommendationResult(
        <<>>,
        <<RootCauseHypothesis("Mock: recent rollout or resource pressure", 45)>>)

\* MockProvider.generate_recommendations: the report is not read.
MockResult ==
    RecommendationResult(
        <<RecommendedAction("Check pod events and rollout status for the affected namespace", "low", 50),
          RecommendedAction("Verify image pull secrets and recent deployment changes", "low", 40)>>,
        <<RootCauseHypothesis("Mock: recent rollout or resource pressure", 45)>>)

FallbackAction ==
    RecommendedAction("Review recent deployment changes and check pod events for failures", "low", 40)

ValidationFallbackAction ==
    RecommendedAction("Run kubectl get events to confirm status", "low", 40)

\* What a backend answers. text: "no_brace" has no { or no }, "reversed" has
\* its last } before its first {, "invalid_json" is not JSON between them,
\* "object" parses to an object with the two lists below.
Content(text, hypotheses, actions) ==
    [text |-> text, hypotheses |-> hypotheses, actions |-> actions]

\* A JSON value read as a confidence: a number (in hundredths), a value
\* float() refuses, or a missing key.
Number(n) == [type |-> "number", value |-> n]

NotANumber == [type |-> "string", value |-> 0]

Missing == [type |-> "absent", value |-> 0]

\* The backend's answers: prose only; hypotheses without actions; one
\* action that leaves risk and confidence out.
Contents ==
    { Content("no_brace", <<>>, <<>>),
      Content("object", <<[hypothesis |-> "disk pressure", confidence |-> Number(70)]>>, <<>>),
      Content("object", <<>>,
              <<[action |-> "kubectl describe pod", risk |-> Absent, confidence |-> Missing]>>) }

\* str(value).lower() on the risk values that occur.
RiskLower(value) == IF value = "HIGH" THEN "high" ELSE value

_normalize_risk(value) ==
    IF RiskLower(value) \in {"low", "medium", "high"} THEN RiskLower(value) ELSE "low"

\* item.get("confidence", 0.4)
ConfidenceOr(value) == IF value = Missing THEN Number(40) ELSE value

\* float(value) failing gives 0.4; otherwise max(0.0, min(1.0, confidence))
_clamp_confidence(value) ==
    IF value.type # "number" THEN 40
    ELSE IF value.value < 0 THEN 0
    ELSE IF value.value > 100 THEN 100
    ELSE value.value

\* item.get("risk", "low")
GetOr(value, default) == IF value = Absent THEN default ELSE value

\* _parse_response without its `if not actions: return None`.
openai_parse_response_unchecked(content) ==
    IF content.text # "object" THEN NoResult
    ELSE RecommendationResult(
             [k \in DOMAIN content.actions |->
                 RecommendedAction(content.actions[k].action,
                     _normalize_risk(GetOr(content.actions[k].risk, "low")),
                     _clamp_confidence(ConfidenceOr(content.actions[k].confidence)))],
             [k \in DOMAIN content.hypotheses |->
                 RootCauseHypothesis(content.hypotheses[k].hypothesis,
                     _clamp_confidence(ConfidenceOr(content.hypotheses[k].confidence)))])

\* openai_provider._parse_response
openai_parse_response(content) ==
    IF content.text # "object" THEN NoResult
    ELSE LET hypotheses ==
                 [k \in DOMAIN content.hypotheses |->
                     RootCauseHypothesis(content.hypotheses[k].hypothesis,
                         _clamp_confidence(ConfidenceOr(content.hypotheses[k].confidence)))]
             actions ==
                 [k \in DOMAIN content.actions |->
                     RecommendedAction(content.actions[k].action,
                         _normalize_risk(GetOr(content.actions[k].risk, "low")),
                         _clamp_confidence(ConfidenceOr(content.actions[k].confidence)))]
         IN  IF actions = <<>> THEN NoResult
             ELSE RecommendationResult(actions, hypotheses)

\* float(...) raises on a non-number, and the models refuse a risk outside
\* {low, medium, high} and a confidence outside [0, 1]: _parse_response
\* catches all of these and returns None.
BedrockItemRejected(item, risk) ==
    \/ ConfidenceOr(item.confidence).type # "number"
    \/ ConfidenceOr(item.confidence).value < 0
    \/ ConfidenceOr(item.confidence).value > 100
    \/ risk \notin {"low", "medium", "high"}

\* bedrock_provider._parse_response
bedrock_parse_response(content) ==
    IF content.text # "object" THEN NoResult
    ELSE IF \/ \E k \in DOMAIN content.hypotheses :
                  BedrockItemRejected(content.hypotheses[k], "low")
            \/ \E k \in DOMAIN content.actions :
                  BedrockItemRejected(content.actions[k], GetOr(content.actions[k].risk, "low"))
         THEN NoResult
    ELSE LET hypotheses ==
                 [k \in DOMAIN content.hypotheses |->
                     RootCauseHypothesis(content.hypotheses[k].hypothesis,
                         ConfidenceOr(content.hypotheses[k].confidence).value)]
             actions ==
                 [k \in DOMAIN content.actions |->
                     RecommendedAction(content.actions[k].action,
                         GetOr(content.actions[k].risk, "low"),
                         ConfidenceOr(content.actions[k].confidence).value)]
         IN  IF actions = <<>> THEN NoResult
             ELSE RecommendationResult(actions, hypotheses)

\* The attempt loop of both remote providers: the first attempt whose HTTP
\* call does not raise returns the parse of its content; None after
\* max_retries + 1 failures. attempts[k] is "http_error" or a content.
RECURSIVE AttemptLoop(_, _, _)
AttemptLoop(variant, attempts, attempt) ==
    IF attempt > DefaultMaxRetries + 1 THEN NoResult
    ELSE IF attempts[attempt].ok
         THEN IF variant = "openai"
              THEN openai_parse_response(attempts[attempt].content)
              ELSE bedrock_parse_response(attempts[attempt].content)
    ELSE AttemptLoop(variant, attempts, attempt + 1)

HttpError == [ok |-> FALSE, content |-> Content("no_brace", <<>>, <<>>)]

\* The POST returns with a success status, and resp.json() or the lookup of
\* the text in the decoded body raises (a body that is not JSON, or JSON
\* without choices[0].message.content): still inside the attempt's try
\* block, so the attempt ends like one whose call failed. ok tells whether
\* the attempt got as far as _parse_response.
HttpUndecodable == [ok |-> FALSE, content |-> Content("no_envelope", <<>>, <<>>)]

HttpOk(content) == [ok |-> TRUE, content |-> content]

\* The process environment and the backend during one recommend_actions call:
\*   setting     LLM_PROVIDER, lower-cased
\*   numbers_ok  LLM_MAX_TOKENS, LLM_TEMPERATURE and LLM_MAX_RETRIES parse
\*   credentials OPENAI_API_KEY, or AWS_REGION and BEDROCK_MODEL_ID, are set
\*   attempts    what each HTTP attempt meets
\*   raises      generate_recommendations ends with an exception
ProviderEnv(setting, numbers_ok, credentials, attempts, raises) ==
    [setting |-> setting, numbers_ok |-> numbers_ok, credentials |-> credentials,
     attempts |-> attempts, raises |-> raises]

AllFail == <<HttpError, HttpError, HttpError>>

ProviderEnvs ==
    {ProviderEnv("mock", TRUE, FALSE, AllFail, FALSE),
     ProviderEnv("anything", TRUE, FALSE, AllFail, FALSE),
     ProviderEnv("openai", FALSE, TRUE, AllFail, FALSE),
     ProviderEnv("openai", TRUE, FALSE, AllFail, FALSE),
     ProviderEnv("bedrock", TRUE, FALSE, AllFail, FALSE),
     ProviderEnv("openai", TRUE, TRUE, AllFail, FALSE),
     ProviderEnv("bedrock", TRUE, TRUE, AllFail, FALSE),
     ProviderEnv("openai", TRUE, TRUE, AllFail, TRUE)}
    \cup {ProviderEnv(v, TRUE, TRUE, <<HttpOk(c), HttpError, HttpError>>, FALSE) :
             v \in {"openai", "bedrock"}, c \in Contents}
    \cup {ProviderEnv(v, TRUE, TRUE, <<HttpError, HttpError, HttpOk(c)>>, FALSE) :
             v \in {"openai", "bedrock"}, c \in Contents}

\* remediation_advisor._get_provider: the class chosen for this call.
_get_provider(env) ==
    IF env.setting = "openai" THEN "openai"
    ELSE IF env.setting = "bedrock" THEN "bedrock"
    ELSE "mock"

\* OpenAIProvider() and BedrockProvider() convert the numeric settings in
\* __init__, outside recommend_actions' try block.
ProviderConstructorRaises(env) ==
    _get_provider(env) # "mock" /\ ~env.numbers_ok

\* provider.generate_recommendations(report)
generate_recommendations(env) ==
    IF _get_provider(env) = "mock" THEN MockResult
    ELSE IF ~env.credentials THEN NoResult
    ELSE AttemptLoop(_get_provider(env), env.attempts, 1)

\* remediation_advisor.recommend_actions: an exception of the provider is
\* caught and counts as None; None becomes the fallback result.
recommend_actions(env) ==
    LET response == IF env.raises THEN NoResult ELSE generate_recommendations(env)
    IN  IF response = NoResult
        THEN RecommendationResult(<<FallbackAction>>, <<>>)
        ELSE response

\* ------------------------------------------------------------------------
\* Orchestrator stage bodies (app/orchestrator.py): the statements of each
\* stage up to its `await self.store.save_incident_report(report)`
\* ------------------------------------------------------------------------
\* A triage that writes the severity it reported back into the report.
TriageBodySettingSeverity(report) ==
    LET started == StageStarted(report, "triage")
        triaged == [started EXCEPT !.evidence = @ \o triage_alert(started),
                                   !.severity = Or2(@, "unknown"),
                                   !.status = "investigating"]
    IN  StageCompleted(triaged, "triage")

TriageBody(report) ==
    LET started == StageStarted(report, "triage")
        triaged == [started EXCEPT !.evidence = @ \o triage_alert(started),
                                   !.status = "investigating"]
    IN  StageCompleted(triaged, "triage")

\* A merge in the order in which the collectors finished.
InvestigateMergeAsCompleted(report, k8s_result, deploy_result, order) ==
    LET first == IF order[1] = "k8s" THEN k8s_result ELSE deploy_result
        second == IF order[1] = "k8s" THEN deploy_result ELSE k8s_result
        merged == [report EXCEPT
                      !.evidence = @ \o first.evidence \o second.evidence,
                      !.links = @ \o first.links \o second.links]
    IN  StageCompleted(merged, "investigation")

\* A merge that assigns the collected evidence instead of extending the list.
InvestigateMergeReplacing(report, k8s_result, deploy_result, order) ==
    LET merged == [report EXCEPT
                      !.evidence = k8s_result.evidence \o deploy_result.evidence,
                      !.links = @ \o k8s_result.links \o deploy_result.links]
    IN  StageCompleted(merged, "investigation")

\* results = await asyncio.gather(k8s_task, deploy_task): the results come in
\* the order of the arguments, whichever task finished first.
InvestigateMerge(report, k8s_result, deploy_result, order) ==
    LET merged == [report EXCEPT
                      !.evidence = @ \o k8s_result.evidence \o deploy_result.evidence,
                      !.links = @ \o k8s_result.links \o deploy_result.links]
    IN  StageCompleted(merged, "investigation")

\* An analyze stage that extends the hypothesis list it finds.
AnalyzeBodyExtending(report) ==
    LET started == StageStarted(report, "analysis")
        analyzed == [started EXCEPT
                        !.root_cause_hypotheses = @ \o _derive_hypotheses(started.evidence)]
    IN  StageCompleted(analyzed, "analysis")

\* _analyze: report.root_cause_hypotheses = _derive_hypotheses(report.evidence)
AnalyzeBody(report) ==
    LET started == StageStarted(report, "analysis")
        analyzed == [started EXCEPT
                        !.root_cause_hypotheses = _derive_hypotheses(started.evidence)]
    IN  StageCompleted(analyzed, "analysis")

\* _recommend without `report.status = "recommended"`.
RecommendApplyKeepsStatus(report, recommendation) ==
    LET recommended ==
            [report EXCEPT
                !.recommended_actions = recommendation.recommended_actions,
                !.root_cause_hypotheses =
                    IF recommendation.root_cause_hypotheses # <<>>
                    THEN recommendation.root_cause_hypotheses ELSE @]
    IN  StageCompleted(recommended, "recommendation")

\* _recommend taking the provider's hypotheses even when it sent none.
RecommendApplyAlwaysOverrides(report, recommendation) ==
    LET recommended ==
            [report EXCEPT
                !.recommended_actions = recommendation.recommended_actions,
                !.root_cause_hypotheses = recommendation.root_cause_hypotheses,
                !.status = "recommended"]
    IN  StageCompleted(recommended, "recommendation")

\* The statements of _recommend after `await recommend_actions(report)`.
RecommendApply(report, recommendation) ==
    LET recommended ==
            [report EXCEPT
                !.recommended_actions = recommendation.recommended_actions,
                !.root_cause_hypotheses =
                    IF recommendation.root_cause_hypotheses # <<>>
                    THEN recommendation.root_cause_hypotheses ELSE @,
                !.status = "recommended"]
    IN  StageCompleted(recommended, "recommendation")

\* _validate without `report.status = "validated"`.
ValidateBodyKeepsStatus(report) ==
    LET started == StageStarted(report, "validation")
        checked == [started EXCEPT
                       !.recommended_actions =
                           IF @ = <<>> THEN <<ValidationFallbackAction>> ELSE @]
    IN  StageCompleted(checked, "validation")

ValidateBody(report) ==
    LET started == StageStarted(report, "validation")
        checked == [started EXCEPT
                       !.recommended_actions =
                           IF @ = <<>> THEN <<ValidationFallbackAction>> ELSE @,
                       !.status = "validated"]
    IN  StageCompleted(checked, "validation")

\* _run_pipeline without its `report = await self._analyze(report)`.
NextStageSkipsAnalysis(stage) ==
    CASE stage = "triage" -> "investigation"
      [] stage = "investigation" -> "recommendation"
      [] stage = "recommendation" -> "validation"
      [] OTHER -> "none"

\* _run_pipeline: the stage that follows each stage.
NextStage(stage) ==
    CASE stage = "triage" -> "investigation"
      [] stage = "investigation" -> "analysis"
      [] stage = "analysis" -> "recommendation"
      [] stage = "recommendation" -> "validation"
      [] OTHER -> "none"

PipelineStages == <<"triage", "investigation", "analysis", "recommendation", "validation">>

\* ------------------------------------------------------------------------
\* Store, durable tier (app/store.py)
\* ------------------------------------------------------------------------
NoRow == [kind |-> "none"]

\* An upsert whose DO UPDATE leaves report_json as it was.
UpsertWithoutReport(row, report) ==
    IF row = NoRow
    THEN [kind |-> "row",
          incident_id |-> report.incident_id,
          correlation_id |-> report.correlation_id,
          status |-> report.status,
          incident_type |-> report.incident_type,
          severity |-> report.severity,
          summary |-> report.summary,
          report_json |-> [report EXCEPT !.kind = "dict"]]
    ELSE [row EXCEPT !.status = report.status,
                     !.severity = report.severity,
                     !.summary = report.summary]

\* A serialization that leaves the evidence list out.
SerializeWithoutEvidence(report) == [report EXCEPT !.kind = "dict", !.evidence = <<>>]

\* report.model_dump() and json.dumps(report, default=str): the stored text,
\* written as the dict json.loads makes of it.
Serialize(report) == [report EXCEPT !.kind = "dict"]

\* INSERT ... ON CONFLICT(incident_id) DO UPDATE SET status, severity,
\* summary, updated_at, report_json
Upsert(row, report) ==
    IF row = NoRow
    THEN [kind |-> "row",
          incident_id |-> report.incident_id,
          correlation_id |-> report.correlation_id,
          status |-> report.status,
          incident_type |-> report.incident_type,
          severity |-> report.severity,
          summary |-> report.summary,
          report_json |-> Serialize(report)]
    ELSE [row EXCEPT !.status = report.status,
                     !.severity = report.severity,
                     !.summary = report.summary,
                     !.report_json = Serialize(report)]

\* SELECT report_json ... ; json.loads(row[0]); None when no row has the id.
get_incident_report(table, incident_id) ==
    IF incident_id \notin DOMAIN table \/ table[incident_id] = NoRow
    THEN NoReport
    ELSE table[incident_id].report_json

\* ------------------------------------------------------------------------
\* State
\* ------------------------------------------------------------------------
VARIABLES
    nextId,      \* alerts ingested so far; the next incident gets nextId + 1
    pc,          \* per incident: the stage and the step its run is at
    mem,         \* per incident: the IncidentReport object its run holds
    db,          \* the incidents table as the Store's connection reads it
    lastSaved,   \* per incident: the row as of its last save that returned
    returned,    \* per incident: the report handle_alert returned
    background,  \* per incident: _run_pipeline was added to BackgroundTasks
    tasks,       \* per incident: the two collector tasks of _investigate
    response,    \* per incident: what the provider gave the running _recommend
    failure,     \* per incident: the stage and cause logged as pipeline_failed
    analysis,    \* how the last analyze_incident call ended
    provider,    \* LLM_PROVIDER and the recommend_actions call being followed
    store,       \* a Store followed call by call: its table, cache and clock
    slack        \* per incident: the notify calls made, each with its outcome

vars == <<nextId, pc, mem, db, lastSaved, returned, background, tasks,
          response, failure, analysis, provider, store, slack>>

At(stage, step) == [stage |-> stage, step |-> step]

Pending == [raised |-> FALSE, evidence |-> <<>>, links |-> <<>>, done |-> FALSE]

Done(result) ==
    [raised |-> result.raised, evidence |-> result.evidence,
     links |-> result.links, done |-> TRUE]

NoTasks == [k8s |-> Pending, deploy |-> Pending, order |-> <<>>]

NoFailure == [stage |-> "none", cause |-> "none"]

NoAnalysis == "none"

\* The process before startup: LLM_PROVIDER not read yet, no
\* recommend_actions call made.
ProviderIdle ==
    [pc |-> "boot", setting |-> Absent, startup |-> Absent, variant |-> "none",
     max_retries |-> DefaultMaxRetries, environ |-> {}, attempts |-> <<>>,
     attempt |-> 0, calls |-> 0, parsed |-> Content("none", <<>>, <<>>),
     response |-> NoResult, recommendation |-> NoResult, report |-> NoReport]

\* No Store call made yet. A call records the clock reading it was made at,
\* what it returned (result, listing, value), the error it raised ("none"
\* when it returned) and the backends it awaited.
NoCall ==
    [kind |-> "none", at |-> 0, incident_id |-> 0, limit |-> 0, result |-> NoReport,
     listing |-> <<>>, value |-> NoReport, error |-> "none", waits |-> {}]

\* The Store after connect(): _db an open connection, _redis the Redis
\* client, an empty incidents table, an empty cache. saved and saved_at
\* remember, per incident id, the report handed to its last save and the
\* clock reading of that save; written remembers, per key, the last write
\* to the cache. rows is the table as the connection sees it, which is the
\* committed table whenever in_transaction is FALSE (no statement executed
\* since the last commit); writes lists the save calls whose statement
\* has been executed, in that order, each with its report, the clock reading
\* it took, whether its commit has returned, and whether an earlier call was
\* still waiting for its commit when the statement ran.
StoreConnected ==
    [db |-> "open", redis |-> "client", ping |-> "PONG",
     rows |-> <<>>, cache |-> {}, clock |-> 0,
     saved |-> <<>>, saved_at |-> <<>>, written |-> <<>>, call |-> NoCall,
     in_transaction |-> FALSE, writes |-> <<>>]

\* The Store after Store.__init__: self._redis = None, self._db = None.
StoreConstructed ==
    [StoreConnected EXCEPT !.db = "none", !.redis = "none", !.ping = "none"]

Init ==
    /\ nextId = 0
    /\ pc = [i \in Ids |-> At("none", "idle")]
    /\ mem = [i \in Ids |-> NoReport]
    /\ db = [i \in Ids |-> NoRow]
    /\ lastSaved = [i \in Ids |-> NoRow]
    /\ returned = [i \in Ids |-> NoReport]
    /\ background = [i \in Ids |-> FALSE]
    /\ tasks = [i \in Ids |-> NoTasks]
    /\ response = [i \in Ids |-> NoResult]
    /\ failure = [i \in Ids |-> NoFailure]
    /\ analysis = NoAnalysis
    /\ provider = ProviderIdle
    /\ store = StoreConnected
    /\ slack = [i \in Ids |-> <<>>]

\* An exception that ends every run under way, not only the one it was
\* raised in.
RaiseEndsEveryRun(i, cause) ==
    /\ pc' = [j \in DOMAIN pc |->
                 IF j = i \/ pc[j].step \notin {"idle", "complete", "raised"}
                 THEN At(pc[j].stage, "raised") ELSE pc[j]]
    /\ failure' = [failure EXCEPT ![i] = [stage |-> pc[i].stage, cause |-> cause]]

\* An exception leaves the running coroutine: handle_alert lets it reach the
\* caller (nothing is scheduled); _run_pipeline catches and logs it.
Raise(i, cause) ==
    /\ pc' = [pc EXCEPT ![i] = At(pc[i].stage, "raised")]
    /\ failure' = [failure EXCEPT ![i] = [stage |-> pc[i].stage, cause |-> cause]]

\* ------------------------------------------------------------------------
\* Orchestrator.handle_alert
\* ------------------------------------------------------------------------
\* Up to `await self.store.save_incident_report(report)`.
HandleAlert(payload) ==
    /\ nextId + 1 \in DOMAIN pc
    /\ nextId' = nextId + 1
    /\ \/ /\ SeverityRaises(payload)
          /\ pc' = [pc EXCEPT ![nextId + 1] = At("ingestion", "raised")]
          /\ failure' = [failure EXCEPT ![nextId + 1] =
                            [stage |-> "ingestion", cause |-> "payload"]]
          /\ UNCHANGED mem
       \/ /\ ~SeverityRaises(payload)
          /\ mem' = [mem EXCEPT ![nextId + 1] =
                        Stamp(NoReport,
                              IncidentReport(nextId + 1, <<"corr", nextId + 1>>, payload),
                              store.clock)]
          /\ pc' = [pc EXCEPT ![nextId + 1] = At("ingestion", "save")]
          /\ UNCHANGED failure
    /\ UNCHANGED <<db, lastSaved, returned, background, tasks, response, analysis, provider, store, slack>>

\* background_tasks.add_task(self._run_pipeline, report); return report.
\* The background task starts once the response has been sent.
HandleAlertReturn(i) ==
    /\ pc[i] = At("ingestion", "saved")
    /\ background' = [background EXCEPT ![i] = TRUE]
    /\ returned' = [returned EXCEPT ![i] = mem[i]]
    /\ pc' = [pc EXCEPT ![i] = At("triage", "body")]
    /\ UNCHANGED <<nextId, mem, db, lastSaved, tasks, response, failure, analysis, provider, store, slack>>

\* ------------------------------------------------------------------------
\* Store.save_incident_report
\* ------------------------------------------------------------------------
\* A run that starts over with triage once validation has been saved.
AfterSaveStartsOver(stage) ==
    IF stage = "ingestion" THEN At("ingestion", "saved")
    ELSE IF stage = "validation" THEN At("triage", "body")
    ELSE At(NextStage(stage), "body")

\* handle_alert awaiting the pipeline itself instead of scheduling it.
AfterSaveRunsInline(stage) ==
    IF stage = "validation" THEN At("validation", "complete")
    ELSE IF stage = "ingestion" THEN At("triage", "body")
    ELSE At(NextStage(stage), "body")

\* Where a run continues after the save of its stage has returned.
AfterSave(stage) ==
    IF stage = "ingestion" THEN At("ingestion", "saved")
    ELSE IF stage = "validation" THEN At("validation", "complete")
    ELSE At(NextStage(stage), "body")

\* The notify call a stage makes once its save has returned:
\* notify_incident_created, notify_recommendation_ready,
\* notify_validation_complete; "none" for a stage that makes no call.
NotifyTitle(stage) ==
    CASE stage = "triage" -> "Incident created"
      [] stage = "recommendation" -> "Recommendation ready"
      [] stage = "validation" -> "Validation complete"
      [] OTHER -> "none"

\* A stage that notifies before it saves, so also when the save raises.
NotifiedBeforeSave(sent, stage, failed, outcome) ==
    IF NotifyTitle(stage) = "none"
    THEN sent
    ELSE Append(sent, [title |-> NotifyTitle(stage), outcome |-> outcome])

\* SlackClient._send_message after the save of a stage: without a webhook
\* URL nothing is posted ("no_webhook"); otherwise the POST is made and
\* either succeeds ("sent") or raises, which is logged ("failed").
Notified(sent, stage, failed, outcome) ==
    IF failed \/ NotifyTitle(stage) = "none"
    THEN sent
    ELSE Append(sent, [title |-> NotifyTitle(stage), outcome |-> outcome])

\* if self._db is None: raise RuntimeError("Store not connected (db).").
\* Otherwise await self._db.execute(INSERT ...); await self._db.commit().
\* Either call may raise. A failed execute writes nothing. A failed commit
\* either rolls the transaction back (disk full, I/O error) or leaves it
\* open (database locked): the connection, which every read of the Store
\* uses, then still sees the upserted row. A stage's notify call follows
\* its save in the same coroutine; webhook_url is the same for every call.
Save(i, outcome) ==
    /\ pc[i].step = "save"
    /\ \A j \in Ids : \A k \in DOMAIN slack[j] :
          (slack[j][k].outcome = "no_webhook") <=> (outcome = "no_webhook")
    /\ \/ /\ store.db = "none"
          /\ Raise(i, "not_connected")
          /\ UNCHANGED <<db, lastSaved, response>>
       \/ /\ store.db # "none"
          /\ \/ /\ db' = [db EXCEPT ![i] = Upsert(db[i], mem[i])]
                /\ lastSaved' = [lastSaved EXCEPT ![i] = Upsert(db[i], mem[i])]
                /\ pc' = [pc EXCEPT ![i] = AfterSave(pc[i].stage)]
                /\ response' = [response EXCEPT ![i] = NoResult]
                /\ UNCHANGED failure
             \/ /\ Raise(i, "save_rolled_back")
                /\ UNCHANGED <<db, lastSaved, response>>
             \/ /\ db' = [db EXCEPT ![i] = Upsert(db[i], mem[i])]
                /\ Raise(i, "commit_refused")
                /\ UNCHANGED <<lastSaved, response>>
    /\ slack' = [slack EXCEPT ![i] =
                    Notified(@, pc[i].stage, pc'[i].step = "raised", outcome)]
    /\ UNCHANGED <<nextId, mem, returned, background, tasks, analysis, provider, store>>

\* ------------------------------------------------------------------------
\* The five stages of _run_pipeline
\* ------------------------------------------------------------------------
Triage(i) ==
    /\ pc[i] = At("triage", "body")
    /\ mem' = [mem EXCEPT ![i] = Stamp(mem[i], TriageBody(mem[i]), store.clock)]
    /\ pc' = [pc EXCEPT ![i] = At("triage", "save")]
    /\ UNCHANGED <<nextId, db, lastSaved, returned, background, tasks, response,
                   failure, analysis, provider, store, slack>>

\* Up to `await asyncio.gather(k8s_task, deploy_task)`.
InvestigateStart(i) ==
    /\ pc[i] = At("investigation", "body")
    /\ mem' = [mem EXCEPT ![i] =
                  Stamp(mem[i], StageStarted(mem[i], "investigation"), store.clock)]
    /\ tasks' = [tasks EXCEPT ![i] = NoTasks]
    /\ pc' = [pc EXCEPT ![i] = At("investigation", "gather")]
    /\ UNCHANGED <<nextId, db, lastSaved, returned, background, response,
                   failure, analysis, provider, store, slack>>

K8sFinish(i, cluster) ==
    /\ pc[i] = At("investigation", "gather")
    /\ ~tasks[i].k8s.done
    /\ tasks' = [tasks EXCEPT ![i].k8s = Done(k8s_investigation(mem[i], cluster)),
                              ![i].order = Append(@, "k8s")]
    /\ UNCHANGED <<nextId, pc, mem, db, lastSaved, returned, background, response,
                   failure, analysis, provider, store, slack>>

DeployFinish(i) ==
    /\ pc[i] = At("investigation", "gather")
    /\ ~tasks[i].deploy.done
    /\ tasks' = [tasks EXCEPT ![i].deploy = Done(deploy_investigation(mem[i])),
                              ![i].order = Append(@, "deploy")]
    /\ UNCHANGED <<nextId, pc, mem, db, lastSaved, returned, background, response,
                   failure, analysis, provider, store, slack>>

\* gather re-raises the first exception of a task as soon as that task ends.
GatherRaise(i) ==
    /\ pc[i] = At("investigation", "gather")
    /\ \/ tasks[i].k8s.done /\ tasks[i].k8s.raised
       \/ tasks[i].deploy.done /\ tasks[i].deploy.raised
    /\ Raise(i, "collector")
    /\ UNCHANGED <<nextId, mem, db, lastSaved, returned, background, tasks,
                   response, analysis, provider, store, slack>>

\* gather returns when both tasks have ended; the rest of _investigate up to
\* its save.
GatherJoin(i) ==
    /\ pc[i] = At("investigation", "gather")
    /\ tasks[i].k8s.done /\ ~tasks[i].k8s.raised
    /\ tasks[i].deploy.done /\ ~tasks[i].deploy.raised
    /\ mem' = [mem EXCEPT ![i] =
                  Stamp(mem[i],
                        InvestigateMerge(mem[i], tasks[i].k8s, tasks[i].deploy,
                                         tasks[i].order),
                        store.clock)]
    /\ tasks' = [tasks EXCEPT ![i] = NoTasks]
    /\ pc' = [pc EXCEPT ![i] = At("investigation", "save")]
    /\ UNCHANGED <<nextId, db, lastSaved, returned, background, response,
                   failure, analysis, provider, store, slack>>

Analyze(i) ==
    /\ pc[i] = At("analysis", "body")
    /\ mem' = [mem EXCEPT ![i] = Stamp(mem[i], AnalyzeBody(mem[i]), store.clock)]
    /\ pc' = [pc EXCEPT ![i] = At("analysis", "save")]
    /\ UNCHANGED <<nextId, db, lastSaved, returned, background, tasks, response,
                   failure, analysis, provider, store, slack>>

\* Up to the provider's HTTP call inside `await recommend_actions(report)`;
\* _get_provider() constructs the provider before that.
RecommendStart(i) ==
    /\ pc[i] = At("recommendation", "body")
    /\ mem' = [mem EXCEPT ![i] =
                  Stamp(mem[i], StageStarted(mem[i], "recommendation"), store.clock)]
    /\ \/ /\ \E env \in ProviderEnvs : ProviderConstructorRaises(env)
          /\ Raise(i, "provider_settings")
       \/ /\ pc' = [pc EXCEPT ![i] = At("recommendation", "await")]
          /\ UNCHANGED failure
    /\ UNCHANGED <<nextId, db, lastSaved, returned, background, tasks, response,
                   analysis, provider, store, slack>>

\* recommend_actions returns; the rest of _recommend up to its save.
RecommendResume(i, env) ==
    /\ pc[i] = At("recommendation", "await")
    /\ ~ProviderConstructorRaises(env)
    /\ response' = [response EXCEPT ![i] =
                       IF env.raises THEN NoResult ELSE generate_recommendations(env)]
    /\ mem' = [mem EXCEPT ![i] =
                  Stamp(mem[i], RecommendApply(mem[i], recommend_actions(env)), store.clock)]
    /\ pc' = [pc EXCEPT ![i] = At("recommendation", "save")]
    /\ UNCHANGED <<nextId, db, lastSaved, returned, background, tasks, failure,
                   analysis, provider, store, slack>>

Validate(i) ==
    /\ pc[i] = At("validation", "body")
    /\ mem' = [mem EXCEPT ![i] = Stamp(mem[i], ValidateBody(mem[i]), store.clock)]
    /\ pc' = [pc EXCEPT ![i] = At("validation", "save")]
    /\ UNCHANGED <<nextId, db, lastSaved, returned, background, tasks, response,
                   failure, analysis, provider, store, slack>>

\* ------------------------------------------------------------------------
\* Orchestrator.analyze_incident
\* ------------------------------------------------------------------------
\* if refresh_evidence: _investigate first, else _analyze first.
FirstStage(refresh_evidence) ==
    IF refresh_evidence THEN "investigation" ELSE "analysis"

\* Every stage begins with report.stage_timings.append(stage), an attribute
\* read that raises AttributeError on a dict, before the stage has changed
\* or saved anything.
StageRaisesOnEntry(report, stage) ==
    stage \in {"triage", "investigation", "analysis", "recommendation", "validation"}
    /\ ~HasAttributes(report)

\* analyze_incident without `if not report: raise`: None goes on to the
\* first stage, whose attribute read raises.
analyze_incident_unchecked(report) == "AttributeError"

\* How analyze_incident ends on what get_incident_report returned: None
\* raises ValueError("incident_not_found"); otherwise it is a dict, and the
\* first stage raises on entry whichever value refresh_evidence has.
analyze_incident(report) ==
    IF report = NoReport THEN "incident_not_found"
    ELSE IF \A refresh_evidence \in BOOLEAN :
                StageRaisesOnEntry(report, FirstStage(refresh_evidence))
    THEN "AttributeError"
    ELSE "started"

\* await orchestrator.analyze_incident(incident_id, refresh_evidence)
AnalyzeIncident(i) ==
    /\ analysis' = analyze_incident(get_incident_report(db, i))
    /\ UNCHANGED <<nextId, pc, mem, db, lastSaved, returned, background, tasks,
                   response, failure, provider, store, slack>>

Next ==
    \/ \E payload \in InputPayloads : HandleAlert(payload)
    \/ \E i \in Ids :
        \/ HandleAlertReturn(i)
        \/ Save(i, "no_webhook")
        \/ Triage(i)
        \/ InvestigateStart(i)
        \/ \E cluster \in K8sEnvs : K8sFinish(i, cluster)
        \/ DeployFinish(i)
        \/ GatherRaise(i)
        \/ GatherJoin(i)
        \/ Analyze(i)
        \/ RecommendStart(i)
        \/ \E env \in ProviderEnvs : RecommendResume(i, env)
        \/ Validate(i)
    \/ \E i \in Ids \cup {0} : AnalyzeIncident(i)

Spec == Init /\ [][Next]_vars

\* ------------------------------------------------------------------------
\* One recommend_actions call followed attempt by attempt
\* (app/agents/remediation_advisor.py, app/providers)
\* ------------------------------------------------------------------------
\* The values LLM_PROVIDER takes, lower-cased; Absent is the unset variable.
ProviderSettings == {Absent, "mock", "openai", "bedrock", "anything"}

\* What a backend may answer to an attempt that does not raise.
BackendContents ==
    Contents \cup
    { Content("reversed", <<>>, <<>>),
      Content("invalid_json", <<>>, <<>>),
      Content("object",
              <<[hypothesis |-> "oom kill", confidence |-> Number(-20)]>>,
              <<[action |-> "kubectl top pod", risk |-> "critical", confidence |-> Number(150)]>>),
      Content("object", <<>>,
              <<[action |-> "kubectl logs", risk |-> "HIGH", confidence |-> NotANumber]>>),
      Content("object",
              <<[hypothesis |-> "bad rollout", confidence |-> Number(70)]>>,
              <<[action |-> "kubectl rollout status", risk |-> "medium", confidence |-> Number(80)]>>) }

\* What the attempts of one call meet: every attempt raises, or exactly one
\* of them gets a response, or one of them gets a response that cannot be
\* decoded, which the first attempt may get before a later one succeeds.
BackendAttempts ==
    {AllFail}
    \cup {[k \in 1..(DefaultMaxRetries + 1) |-> IF k = n THEN HttpOk(c) ELSE HttpError] :
             n \in 1..(DefaultMaxRetries + 1), c \in BackendContents}
    \cup {[k \in 1..(DefaultMaxRetries + 1) |-> IF k = n THEN HttpUndecodable ELSE HttpError] :
             n \in 1..(DefaultMaxRetries + 1)}
    \cup {[k \in 1..(DefaultMaxRetries + 1) |->
              IF k = 1 THEN HttpUndecodable ELSE IF k = 2 THEN HttpOk(c) ELSE HttpError] :
             c \in Contents}

\* The report _recommend holds when it awaits recommend_actions: the
\* crashloop alert after triage, investigation and analysis.
AnalyzedReport ==
    LET payload == [labels |-> [EmptyLabels EXCEPT !.alertname = "crashloop",
                                                   !.severity = "high",
                                                   !.namespace = "ns-a"],
                    annotations |-> [EmptyAnnotations EXCEPT !.summary = "pod crash looping"]]
        triaged == TriageBody(IncidentReport(1, <<"corr", 1>>, payload))
        started == StageStarted(triaged, "investigation")
        investigated ==
            InvestigateMerge(started, k8s_investigation(started, "crashing"),
                             deploy_investigation(started), <<"k8s", "deploy">>)
    IN  StageStarted(AnalyzeBody(investigated), "recommendation")

\* for attempt in range(self.max_retries): one attempt short.
AttemptsAllowedWithoutFirst(max_retries) == max_retries

\* for attempt in range(self.max_retries + 1)
AttemptsAllowed(max_retries) == max_retries + 1

\* The variables holding credentials and settings of the remote providers.
CredentialNames == {"OPENAI_API_KEY", "AWS_REGION", "BEDROCK_MODEL_ID"}

\* BedrockProvider looking at AWS_REGION only.
CredentialsPresentRegionOnly(variant, environ) ==
    IF variant = "openai" THEN "OPENAI_API_KEY" \in environ
    ELSE "AWS_REGION" \in environ

\* `if not self.api_key` (OpenAI); `if not self.region or not self.model_id`
\* (Bedrock)
CredentialsPresent(variant, environ) ==
    IF variant = "openai" THEN "OPENAI_API_KEY" \in environ
    ELSE "AWS_REGION" \in environ /\ "BEDROCK_MODEL_ID" \in environ

\* _parse_response treating text it cannot parse as an empty object.
ParseResponseLenient(variant, content) ==
    IF content.text # "object" THEN RecommendationResult(<<>>, <<>>)
    ELSE IF variant = "openai" THEN openai_parse_response(content)
    ELSE bedrock_parse_response(content)

\* _parse_response of the provider's module.
ParseResponse(variant, content) ==
    IF variant = "openai" THEN openai_parse_response(content)
    ELSE bedrock_parse_response(content)

\* _get_provider() reading the setting of process startup instead of
\* os.environ at the call.
VariantAtCall(state) ==
    _get_provider([setting |-> state.setting])

\* main.startup: the process starts with some value of LLM_PROVIDER.
Startup(setting) ==
    /\ provider.pc = "boot"
    /\ provider' = [provider EXCEPT !.pc = "idle", !.setting = setting,
                                    !.startup = setting]
    /\ UNCHANGED <<nextId, pc, mem, db, lastSaved, returned, background, tasks,
                   response, failure, analysis, store, slack>>

\* os.environ["LLM_PROVIDER"] changes while the process runs.
SetProviderSetting(setting) ==
    /\ provider.pc = "idle"
    /\ setting # provider.setting
    /\ provider' = [provider EXCEPT !.setting = setting]
    /\ UNCHANGED <<nextId, pc, mem, db, lastSaved, returned, background, tasks,
                   response, failure, analysis, store, slack>>

\* recommend_actions up to the first HTTP attempt: _get_provider(), the
\* provider's __init__, and the credentials check of generate_recommendations.
RecommendCall(max_retries, environ, attempts) ==
    /\ provider.pc = "idle"
    /\ LET variant == VariantAtCall(provider)
           called == [provider EXCEPT !.variant = variant,
                                      !.max_retries = max_retries,
                                      !.environ = environ,
                                      !.attempts = attempts,
                                      !.attempt = 1,
                                      !.calls = 0,
                                      !.parsed = Content("none", <<>>, <<>>),
                                      !.response = NoResult,
                                      !.recommendation = NoResult,
                                      !.report = NoReport]
       IN  provider' =
               IF variant = "mock"
               THEN [called EXCEPT !.pc = "responded", !.response = MockResult]
               ELSE IF ~CredentialsPresent(variant, environ)
               THEN [called EXCEPT !.pc = "responded"]
               ELSE [called EXCEPT !.pc = "loop"]
    /\ UNCHANGED <<nextId, pc, mem, db, lastSaved, returned, background, tasks,
                   response, failure, analysis, store, slack>>

\* One pass of the attempt loop: the HTTP call raises and the loop goes on,
\* or it answers and generate_recommendations returns the parse.
Attempt ==
    /\ provider.pc = "loop"
    /\ provider.attempt <= AttemptsAllowed(provider.max_retries)
    /\ LET met == provider.attempts[provider.attempt]
       IN  provider' =
               IF met.ok
               THEN [provider EXCEPT
                        !.calls = @ + 1,
                        !.parsed = met.content,
                        !.response = ParseResponse(provider.variant, met.content),
                        !.pc = "responded"]
               ELSE [provider EXCEPT !.calls = @ + 1, !.attempt = @ + 1]
    /\ UNCHANGED <<nextId, pc, mem, db, lastSaved, returned, background, tasks,
                   response, failure, analysis, store, slack>>

\* The loop ends without a response: return None.
Exhausted ==
    /\ provider.pc = "loop"
    /\ provider.attempt > AttemptsAllowed(provider.max_retries)
    /\ provider' = [provider EXCEPT !.pc = "responded", !.response = NoResult]
    /\ UNCHANGED <<nextId, pc, mem, db, lastSaved, returned, background, tasks,
                   response, failure, analysis, store, slack>>

\* recommend_actions turns None into the fallback result and returns;
\* _recommend applies what it got to its report.
RecommendReturn ==
    /\ provider.pc = "responded"
    /\ LET recommendation ==
               IF provider.response = NoResult
               THEN RecommendationResult(<<FallbackAction>>, <<>>)
               ELSE provider.response
       IN  provider' = [provider EXCEPT
                           !.pc = "returned",
                           !.recommendation = recommendation,
                           !.report = RecommendApply(AnalyzedReport, recommendation)]
    /\ UNCHANGED <<nextId, pc, mem, db, lastSaved, returned, background, tasks,
                   response, failure, analysis, store, slack>>

\* _recommend has taken the result; the process waits for the next
\* recommend_actions call.
RecommendDone ==
    /\ provider.pc = "returned"
    /\ provider' = [ProviderIdle EXCEPT !.pc = "idle",
                                       !.setting = provider.setting,
                                       !.startup = provider.startup]
    /\ UNCHANGED <<nextId, pc, mem, db, lastSaved, returned, background, tasks,
                   response, failure, analysis, store, slack>>

ProviderNext ==
    \/ \E setting \in ProviderSettings : Startup(setting)
    \/ \E setting \in ProviderSettings : SetProviderSetting(setting)
    \/ \E max_retries \in 0..DefaultMaxRetries, environ \in SUBSET CredentialNames,
          attempts \in BackendAttempts :
           RecommendCall(max_retries, environ, attempts)
    \/ Attempt
    \/ Exhausted
    \/ RecommendReturn
    \/ RecommendDone

ProviderSpec == Init /\ [][ProviderNext]_vars

\* ------------------------------------------------------------------------
\* The Store followed call by call (app/store.py)
\* ------------------------------------------------------------------------
\* Incident ids handed to the Store.
MaxRecords == 2

StoreIds == 1..MaxRecords

\* Readings of the wall clock, in ticks.
MaxClock == 2

\* list_incidents(limit: int = 50)
DefaultLimit == 50

\* The limits list_incidents is called with.
Limits == {1, DefaultLimit}

\* Store(ttl_seconds: int = 3600)
DefaultTtl == 3600

\* now_utc().isoformat(), from the seconds on: "SS+00:00" when the
\* microsecond is 0, "SS.ffffff+00:00" otherwise. The text is written as the
\* seconds, the code of the character that follows (43 for +, 46 for .) and
\* the microseconds.
IsoFormat(t) ==
    IF t % TicksPerSecond = 0
    THEN <<t \div TicksPerSecond, 43>>
    ELSE <<t \div TicksPerSecond, 46, t % TicksPerSecond>>

\* SQLite's comparison of two TEXT values: the first differing character
\* decides, a proper prefix is smaller.
TextLess(a, b) ==
    \/ \E k \in 1..Len(a) :
          /\ k <= Len(b)
          /\ a[k] < b[k]
          /\ \A j \in 1..(k - 1) : a[j] = b[j]
    \/ /\ Len(a) < Len(b)
       /\ \A j \in 1..Len(a) : a[j] = b[j]

\* The reports handed to save_incident_report: per id the report of a
\* crashloop alert as ingested, and a triaged report with the same id made
\* from another alert under another correlation id.
StoreReports ==
    LET crashloop == [labels |-> [EmptyLabels EXCEPT !.alertname = "crashloop",
                                                     !.severity = "high",
                                                     !.namespace = "ns-a"],
                      annotations |-> [EmptyAnnotations EXCEPT !.summary = "pod crash looping"]]
        latency == [labels |-> [EmptyLabels EXCEPT !.incident_type = "High_Latency",
                                                   !.severity = "low"],
                    annotations |-> [EmptyAnnotations EXCEPT !.description = "p95 above 3s"]]
    IN  UNION {{IncidentReport(id, <<"corr", id>>, crashloop),
                TriageBody(IncidentReport(id, <<"corr", 0>>, latency))} : id \in StoreIds}

\* The place of the row with this primary key; 0 when there is none.
RowOf(rows, incident_id) ==
    IF \E k \in DOMAIN rows : rows[k].row.incident_id = incident_id
    THEN CHOOSE k \in DOMAIN rows : rows[k].row.incident_id = incident_id
    ELSE 0

\* Store.save_incident_report: INSERT ... ON CONFLICT(incident_id) DO UPDATE,
\* with updated_at = now_utc().isoformat(); commit.
save_incident_report(rows, report, now) ==
    LET k == RowOf(rows, report.incident_id)
    IN  IF k = 0
        THEN Append(rows, [row |-> Upsert(NoRow, report), updated_at |-> IsoFormat(now)])
        ELSE [rows EXCEPT ![k] = [row |-> Upsert(rows[k].row, report),
                                  updated_at |-> IsoFormat(now)]]

\* The incidents table as a lookup by primary key.
TableView(rows) ==
    [id \in StoreIds |-> IF RowOf(rows, id) = 0 THEN NoRow ELSE rows[RowOf(rows, id)].row]

\* One entry of the listing: the columns list_incidents selects.
ListEntry(r) ==
    [incident_id |-> r.row.incident_id,
     correlation_id |-> r.row.correlation_id,
     status |-> r.row.status,
     incident_type |-> r.row.incident_type,
     severity |-> r.row.severity,
     summary |-> r.row.summary,
     updated_at |-> r.updated_at]

Min(a, b) == IF a <= b THEN a ELSE b

\* ORDER BY updated_at ASC
OrderedAscending(earlier, later) == ~TextLess(later.updated_at, earlier.updated_at)

\* ORDER BY updated_at DESC: may `earlier` stand before `later`.
Ordered(earlier, later) == ~TextLess(earlier.updated_at, later.updated_at)

\* Store.list_incidents: SELECT ... ORDER BY updated_at DESC LIMIT ?. SQLite
\* leaves the order of rows with equal updated_at open: every result the
\* query may give.
list_incidents(rows, limit) ==
    {[k \in 1..Min(limit, Len(rows)) |-> ListEntry(rows[p[k]])] :
        p \in {q \in Permutations(DOMAIN rows) :
                  \A k \in 1..(Len(rows) - 1) : Ordered(rows[q[k]], rows[q[k + 1]])}}

\* The wall clock moves on between two calls.
Tick ==
    /\ store.clock < MaxClock
    /\ store' = [store EXCEPT !.clock = @ + 1]
    /\ UNCHANGED <<nextId, pc, mem, db, lastSaved, returned, background, tasks,
                   response, failure, analysis, provider, slack>>

\* A Store call that returns nothing instead of raising when self._db is
\* None.
ReturnsWhenNotConnected(kind, incident_id, limit) ==
    store' = [store EXCEPT
                 !.call = [NoCall EXCEPT !.kind = kind, !.at = store.clock,
                                         !.incident_id = incident_id,
                                         !.limit = limit]]

\* A Store call made while self._db is None: raise RuntimeError("Store not
\* connected (db)."), before anything is touched.
RaiseNotConnected(kind, incident_id, limit) ==
    store' = [store EXCEPT
                 !.call = [NoCall EXCEPT !.kind = kind, !.at = store.clock,
                                         !.incident_id = incident_id,
                                         !.limit = limit,
                                         !.error = "Store not connected (db)."]]

\* await store.save_incident_report(report), returning the incident id. The
\* Redis client is not used.
StoreSave(report) ==
    /\ IF store.db = "none"
       THEN RaiseNotConnected("save", report.incident_id, 0)
       ELSE store' = [store EXCEPT
                         !.rows = save_incident_report(store.rows, report, store.clock),
                         !.saved = [id \in DOMAIN @ \cup {report.incident_id} |->
                                       IF id = report.incident_id THEN report ELSE @[id]],
                         !.saved_at = [id \in DOMAIN @ \cup {report.incident_id} |->
                                          IF id = report.incident_id
                                          THEN store.clock ELSE @[id]],
                         !.call = [NoCall EXCEPT !.kind = "save", !.at = store.clock,
                                                 !.incident_id = report.incident_id,
                                                 !.waits = {"db"}]]
    /\ UNCHANGED <<nextId, pc, mem, db, lastSaved, returned, background, tasks,
                   response, failure, analysis, provider, slack>>

\* await store.get_incident_report(incident_id): the row is read from
\* SQLite; the Redis client is not used.
StoreGet(incident_id) ==
    /\ IF store.db = "none"
       THEN RaiseNotConnected("get", incident_id, 0)
       ELSE store' = [store EXCEPT
                         !.call = [NoCall EXCEPT
                                      !.kind = "get", !.at = store.clock,
                                      !.incident_id = incident_id,
                                      !.result = get_incident_report(TableView(store.rows),
                                                                     incident_id),
                                      !.waits = {"db"}]]
    /\ UNCHANGED <<nextId, pc, mem, db, lastSaved, returned, background, tasks,
                   response, failure, analysis, provider, slack>>

\* await store.list_incidents(limit)
StoreList(limit) ==
    /\ IF store.db = "none"
       THEN RaiseNotConnected("list", 0, limit)
       ELSE \E listing \in list_incidents(store.rows, limit) :
               store' = [store EXCEPT
                            !.call = [NoCall EXCEPT !.kind = "list", !.at = store.clock,
                                                    !.limit = limit,
                                                    !.listing = listing,
                                                    !.waits = {"db"}]]
    /\ UNCHANGED <<nextId, pc, mem, db, lastSaved, returned, background, tasks,
                   response, failure, analysis, provider, slack>>

StoreNext ==
    \/ Tick
    \/ \E report \in StoreReports : StoreSave(report)
    \/ \E incident_id \in StoreIds : StoreGet(incident_id)
    \/ \E limit \in Limits : StoreList(limit)

StoreSpec == Init /\ [][StoreNext]_vars

\* ------------------------------------------------------------------------
\* The Store's lifecycle and its cache backend (app/store.py, connect and
\* _MemoryRedis)
\* ------------------------------------------------------------------------
\* Store.connect: the Redis client, replaced by _MemoryRedis() when the
\* ping raises OSError or redis.exceptions.ConnectionError; then the SQLite
\* connection and the incidents table.
connect(s, ping) ==
    [s EXCEPT !.redis = IF ping \in {"OSError", "ConnectionError"}
                        THEN "memory" ELSE "client",
              !.ping = ping,
              !.db = "open"]

\* _MemoryRedis.get without the expiry test.
getIgnoringExpiry(cache, key, now) ==
    [value |-> IF \E e \in cache : e.key = key
               THEN (CHOOSE e \in cache : e.key = key).value
               ELSE NoReport,
     cache |-> cache]

\* _MemoryRedis.setex: _data[key] = value, _expiry[key] = time.time() +
\* ttl_seconds.
setex(cache, key, ttl_seconds, value, now) ==
    {e \in cache : e.key # key}
        \cup {[key |-> key, ttl |-> ttl_seconds, value |-> value,
                expiry |-> now + ttl_seconds * TicksPerSecond]}

\* _MemoryRedis.get: the value and the entries left; an entry whose expiry
\* time.time() has passed is dropped and None returned.
get(cache, key, now) ==
    IF \E e \in cache : e.key = key /\ now > e.expiry
    THEN [value |-> NoReport, cache |-> {e \in cache : e.key # key}]
    ELSE [value |-> IF \E e \in cache : e.key = key
                    THEN (CHOOSE e \in cache : e.key = key).value
                    ELSE NoReport,
          cache |-> cache]

\* await store.connect(), made once, at startup. The ping answers, or
\* raises one of the two errors of an unreachable backend.
Connect(ping) ==
    /\ store.db = "none"
    /\ store' = [connect(store, ping) EXCEPT
                    !.call = [NoCall EXCEPT !.kind = "connect", !.at = store.clock,
                                            !.waits = {"cache", "db"}]]
    /\ UNCHANGED <<nextId, pc, mem, db, lastSaved, returned, background, tasks,
                   response, failure, analysis, provider, slack>>

\* await _redis.setex(key, ttl_seconds, value) on the in-process emulation,
\* the key that of an incident. No method of the Store makes this call.
CacheSetex(incident_id, ttl_seconds, value) ==
    /\ store.redis = "memory"
    /\ store' = [store EXCEPT
                    !.cache = setex(store.cache, incident_id, ttl_seconds, value,
                                    store.clock),
                    !.written = [k \in DOMAIN @ \cup {incident_id} |->
                                    IF k = incident_id
                                    THEN [value |-> value, ttl |-> ttl_seconds,
                                          at |-> store.clock]
                                    ELSE @[k]],
                    !.call = [NoCall EXCEPT !.kind = "setex", !.at = store.clock,
                                            !.incident_id = incident_id]]
    /\ UNCHANGED <<nextId, pc, mem, db, lastSaved, returned, background, tasks,
                   response, failure, analysis, provider, slack>>

\* await _redis.get(key) on the in-process emulation.
CacheGet(incident_id) ==
    /\ store.redis = "memory"
    /\ LET got == get(store.cache, incident_id, store.clock)
       IN  store' = [store EXCEPT
                        !.cache = got.cache,
                        !.call = [NoCall EXCEPT !.kind = "cache_get", !.at = store.clock,
                                                !.incident_id = incident_id,
                                                !.value = got.value]]
    /\ UNCHANGED <<nextId, pc, mem, db, lastSaved, returned, background, tasks,
                   response, failure, analysis, provider, slack>>

\* The wall clock moves on, far enough for a cache entry to expire.
CacheTick ==
    /\ store.clock < MaxClock + TicksPerSecond
    /\ store' = [store EXCEPT !.clock = @ + 1]
    /\ UNCHANGED <<nextId, pc, mem, db, lastSaved, returned, background, tasks,
                   response, failure, analysis, provider, slack>>

\* The state after construction with the Store not yet connected; the other
\* variables as in Init.
Constructed ==
    /\ nextId = 0
    /\ pc = [i \in Ids |-> At("none", "idle")]
    /\ mem = [i \in Ids |-> NoReport]
    /\ db = [i \in Ids |-> NoRow]
    /\ lastSaved = [i \in Ids |-> NoRow]
    /\ returned = [i \in Ids |-> NoReport]
    /\ background = [i \in Ids |-> FALSE]
    /\ tasks = [i \in Ids |-> NoTasks]
    /\ response = [i \in Ids |-> NoResult]
    /\ failure = [i \in Ids |-> NoFailure]
    /\ analysis = NoAnalysis
    /\ provider = ProviderIdle
    /\ store = StoreConstructed
    /\ slack = [i \in Ids |-> <<>>]

\* The Store and its cache backend, with the reports of incident 1, entries
\* of one second's time-to-live and the serialized reports as values.
CacheNext ==
    \/ \E ping \in {"PONG", "OSError", "ConnectionError"} : Connect(ping)
    \/ CacheTick
    \/ \E report \in {r \in StoreReports : r.incident_id = 1} : StoreSave(report)
    \/ StoreGet(1)
    \/ \E limit \in Limits : StoreList(limit)
    \/ \E report \in {r \in StoreReports : r.incident_id = 1} :
          CacheSetex(1, 1, Serialize(report))
    \/ CacheGet(1)

CacheSpec == Constructed /\ [][CacheNext]_vars

\* ------------------------------------------------------------------------
\* Calls and ingests on a Store before and after connect
\* ------------------------------------------------------------------------
\* The Store's three calls and handle_alert, made before as well as after
\* startup's connect. The rows of ingested incidents are followed in db;
\* the direct calls use an id of their own, its row followed in store.rows.
LifecycleNext ==
    \/ \E ping \in {"PONG", "OSError", "ConnectionError"} : Connect(ping)
    \/ \E report \in {r \in StoreReports : r.incident_id = 1} : StoreSave(report)
    \/ StoreGet(1)
    \/ \E limit \in Limits : StoreList(limit)
    \/ \E payload \in InputPayloads : HandleAlert(payload)
    \/ \E i \in Ids : Save(i, "no_webhook") \/ HandleAlertReturn(i)

LifecycleSpec == Constructed /\ [][LifecycleNext]_vars

\* ------------------------------------------------------------------------
\* One pipeline run followed through time
\* ------------------------------------------------------------------------
\* The run of the first alert, with the clock moving between its steps and
\* the notifier's webhook unset, answering or failing. The alert may also be
\* {"labels": {"severity": ""}}. Once the run has completed, a reanalyze of the
\* incident may be asked for.
RunNext ==
    \/ Tick
    \/ \E payload \in InputPayloads \cup
                        {[labels |-> [EmptyLabels EXCEPT !.severity = ""],
                          annotations |-> AbsentAnnotations]} :
          nextId = 0 /\ HandleAlert(payload)
    \/ HandleAlertReturn(1)
    \/ \E outcome \in {"no_webhook", "sent", "failed"} : Save(1, outcome)
    \/ pc[1] = At("validation", "complete") /\ AnalyzeIncident(1)
    \/ Triage(1)
    \/ InvestigateStart(1)
    \/ \E cluster \in K8sEnvs : K8sFinish(1, cluster)
    \/ DeployFinish(1)
    \/ GatherRaise(1)
    \/ GatherJoin(1)
    \/ Analyze(1)
    \/ RecommendStart(1)
    \/ \E env \in ProviderEnvs : RecommendResume(1, env)
    \/ Validate(1)

RunSpec == Init /\ [][RunNext]_vars

\* ------------------------------------------------------------------------
\* Save calls in flight on the one connection (app/store.py)
\* ------------------------------------------------------------------------
\* Save calls made to one Store.
MaxWriters == 2

\* save_incident_report up to the return of `await self._db.execute(...)`:
\* the values are taken from the report and the clock without an await in
\* between, and the connection runs one statement at a time, in the order
\* the calls were made.
SaveExecute(report) ==
    /\ store.db # "none"
    /\ Len(store.writes) < MaxWriters
    /\ store' = [store EXCEPT
                    !.rows = save_incident_report(store.rows, report, store.clock),
                    !.in_transaction = TRUE,
                    !.writes = Append(@, [report |-> report, at |-> store.clock,
                                          returned |-> FALSE,
                                          overlaps |-> \E k \in DOMAIN store.writes :
                                                          ~store.writes[k].returned]),
                    !.call = [NoCall EXCEPT !.kind = "save", !.at = store.clock,
                                            !.incident_id = report.incident_id,
                                            !.waits = {"db"}]]
    /\ UNCHANGED <<nextId, pc, mem, db, lastSaved, returned, background, tasks,
                   response, failure, analysis, provider, slack>>

\* `await self._db.commit()` of a call whose statement has been executed:
\* the transaction of the connection is committed, with every statement
\* executed on it so far; the call returns.
SaveCommit(k) ==
    /\ k \in DOMAIN store.writes
    /\ ~store.writes[k].returned
    /\ store' = [store EXCEPT !.in_transaction = FALSE,
                              !.writes[k].returned = TRUE]
    /\ UNCHANGED <<nextId, pc, mem, db, lastSaved, returned, background, tasks,
                   response, failure, analysis, provider, slack>>

\* Saves of incident 1 by whoever holds one of its reports: the report as
\* ingested, after triage and after analysis. The clock moves between the
\* steps of the calls.
WritersNext ==
    \/ Tick
    \/ \E report \in {IncidentReport(1, <<"corr", 1>>, AnalyzedReport.raw_alert),
                       TriageBody(IncidentReport(1, <<"corr", 1>>, AnalyzedReport.raw_alert)),
                       AnalyzedReport} :
          SaveExecute(report)
    \/ \E k \in 1..MaxWriters : SaveCommit(k)
    \/ StoreGet(1)

WritersSpec == Init /\ [][WritersNext]_vars

\* ------------------------------------------------------------------------
\* Runs of several incidents side by side
\* ------------------------------------------------------------------------
\* Alerts ingested while earlier runs are still under way.
MaxRuns == 2

\* Init with room for MaxRuns incidents.
SeveralInit ==
    /\ nextId = 0
    /\ pc = [i \in 1..MaxRuns |-> At("none", "idle")]
    /\ mem = [i \in 1..MaxRuns |-> NoReport]
    /\ db = [i \in 1..MaxRuns |-> NoRow]
    /\ lastSaved = [i \in 1..MaxRuns |-> NoRow]
    /\ returned = [i \in 1..MaxRuns |-> NoReport]
    /\ background = [i \in 1..MaxRuns |-> FALSE]
    /\ tasks = [i \in 1..MaxRuns |-> NoTasks]
    /\ response = [i \in 1..MaxRuns |-> NoResult]
    /\ failure = [i \in 1..MaxRuns |-> NoFailure]
    /\ analysis = NoAnalysis
    /\ provider = ProviderIdle
    /\ store = StoreConnected
    /\ slack = [i \in 1..MaxRuns |-> <<>>]

\* Every alert gets its own run, and the steps of the runs interleave. The
\* alerts: the crashloop scenario, {"labels": null}, which handle_alert
\* rejects, and one with "annotations": null, whose run aborts in
\* investigation. The provider is the mock or OpenAI without an API key.
SeveralNext ==
    \/ \E payload \in {p \in InputPayloads :
                           \/ p.labels.tag = "null"
                           \/ p.annotations.tag = "null"
                           \/ p.labels.severity = "high"} : HandleAlert(payload)
    \/ \E i \in 1..MaxRuns :
        \/ HandleAlertReturn(i)
        \/ Save(i, "no_webhook")
        \/ Triage(i)
        \/ InvestigateStart(i)
        \/ K8sFinish(i, "crashing")
        \/ DeployFinish(i)
        \/ GatherRaise(i)
        \/ GatherJoin(i)
        \/ Analyze(i)
        \/ RecommendStart(i)
        \/ \E env \in {e \in ProviderEnvs : ~e.credentials /\ e.setting \in {"mock", "openai"}} :
              RecommendResume(i, env)
        \/ Validate(i)

SeveralSpec == SeveralInit /\ [][SeveralNext]_vars

\* A step of the background task of incident i, or of one of the calls it
\* awaits; the cluster answers or cannot be reached, the provider is the
\* mock or OpenAI without an API key.
RunStep(i) ==
    \/ Save(i, "no_webhook") /\ background[i]
    \/ Triage(i)
    \/ InvestigateStart(i)
    \/ \E cluster \in {"crashing", "conn_error"} : K8sFinish(i, cluster)
    \/ DeployFinish(i)
    \/ GatherRaise(i)
    \/ GatherJoin(i)
    \/ Analyze(i)
    \/ RecommendStart(i)
    \/ \E env \in {e \in ProviderEnvs : ~e.credentials /\ e.setting \in {"mock", "openai"}} :
          RecommendResume(i, env)
    \/ Validate(i)

\* Alerts arrive while earlier runs are under way, and the steps of the
\* runs interleave.
FairNext ==
    \/ \E payload \in InputPayloads : HandleAlert(payload)
    \/ \E i \in Ids :
        \/ HandleAlertReturn(i)
        \/ Save(i, "no_webhook") /\ ~background[i]
        \/ RunStep(i)

\* The event loop runs every task that is ready, and every collector,
\* provider, store and notifier call that a task awaits returns or raises.
FairSpec == Init /\ [][FairNext]_vars /\ \A i \in Ids : WF_vars(RunStep(i))

\* ------------------------------------------------------------------------
\* The analyze stage applied again
\* ------------------------------------------------------------------------
\* How often _analyze is applied to one report.
MaxAnalyses == 2

\* The stage timings of a report that belong to this stage.
TimingsOf(report, stage) ==
    {k \in DOMAIN report.stage_timings : report.stage_timings[k].stage = stage}

\* _analyze is called once more on the report a stage has returned: on its
\* own result, or on the result of the recommend stage that followed it.
AnalyzeRepeat(i) ==
    /\ pc[i] \in {At("recommendation", "body"), At("validation", "body")}
    /\ Cardinality(TimingsOf(mem[i], "analysis")) < MaxAnalyses
    /\ pc' = [pc EXCEPT ![i] = At("analysis", "body")]
    /\ UNCHANGED <<nextId, mem, db, lastSaved, returned, background, tasks, response,
                   failure, analysis, provider, store, slack>>

\* The run of the first alert, with the analyze stage applied again to the
\* report it produced.
AnalyzeNext ==
    \/ \E payload \in InputPayloads : nextId = 0 /\ HandleAlert(payload)
    \/ HandleAlertReturn(1)
    \/ Save(1, "no_webhook")
    \/ Triage(1)
    \/ InvestigateStart(1)
    \/ \E cluster \in K8sEnvs : K8sFinish(1, cluster)
    \/ DeployFinish(1)
    \/ GatherRaise(1)
    \/ GatherJoin(1)
    \/ Analyze(1)
    \/ AnalyzeRepeat(1)
    \/ RecommendStart(1)
    \/ \E env \in ProviderEnvs : RecommendResume(1, env)
    \/ Validate(1)

AnalyzeSpec == Init /\ [][AnalyzeNext]_vars

\* ------------------------------------------------------------------------
\* Properties
\* ------------------------------------------------------------------------
\* The report the Store holds for an incident, None included.
Stored(i) == get_incident_report(db, i)

Rank(status) ==
    CASE status = "new" -> 1
      [] status = "investigating" -> 2
      [] status = "recommended" -> 3
      [] status = "validated" -> 4
      [] OTHER -> 0

\* 0 while the Store has no row for the incident.
StoredRank(table, i) ==
    IF table[i] = NoRow THEN 0 ELSE Rank(table[i].report_json.status)

IsStarted(event) == event.status = "started"

\* The stages whose started marker the timeline holds, in timeline order.
StartedStages(timeline) ==
    LET started == SelectSeq(timeline, IsStarted)
    IN  [k \in DOMAIN started |-> started[k].stage]

IsPrefix(s, t) == Len(s) <= Len(t) /\ \A k \in DOMAIN s : s[k] = t[k]

HasEvent(timeline, stage, status) ==
    \E k \in DOMAIN timeline :
        timeline[k].stage = stage /\ timeline[k].status = status

\* C1: every pipeline run that has completed its five stages leaves, in the
\* Store, a report with status validated and at least one recommended action,
\* whatever the incident type and whatever the provider did.
C1_FallbackGuarantee ==
    \A i \in Ids :
        pc[i] = At("validation", "complete") =>
            /\ db[i] # NoRow
            /\ db[i].status = "validated"
            /\ Stored(i).status = "validated"
            /\ Len(Stored(i).recommended_actions) >= 1

\* A completed run whose provider gave no result: the stored report carries
\* the fixed fallback action.
C1_Witness ==
    \E i \in Ids :
        /\ pc[i] = At("validation", "complete")
        /\ Stored(i).recommended_actions = <<FallbackAction>>

\* C2: the status of the stored report of every incident moves only one step
\* at a time along new, investigating, recommended, validated: it never skips
\* a status, never goes back, and does not change once validated. Ingest, the
\* pipeline stages and analyze_incident calls are all steps of the behaviour.
C2_StatusOrder ==
    [][\A i \in Ids :
          /\ \/ StoredRank(db', i) = StoredRank(db, i)
             \/ StoredRank(db', i) = StoredRank(db, i) + 1
          /\ db'[i] # NoRow => db'[i].status = db'[i].report_json.status]_vars

\* A validated stored report with an analyze_incident call made on a stored
\* report.
C2_Witness ==
    \E i \in Ids :
        /\ db[i] # NoRow
        /\ db[i].status = "validated"
        /\ analysis = "AttributeError"

\* C3: every report, the one a run holds, the one the Store holds and the one
\* handle_alert returned, that has status recommended or validated has a
\* non-empty recommended_actions list.
C3_ActionsNonEmpty ==
    \A i \in Ids :
        \A report \in {mem[i], Stored(i), returned[i]} :
            (report # NoReport /\ report.status \in {"recommended", "validated"})
                => report.recommended_actions # <<>>

\* A run whose report has just become recommended with the actions a remote
\* provider sent.
C3_Witness ==
    \E i \in Ids :
        /\ pc[i] = At("recommendation", "save")
        /\ mem[i].status = "recommended"
        /\ response[i] \notin {NoResult, MockResult}

\* C4: handle_alert creates a report with status new and the single timeline
\* entry (ingestion, completed), saves it, and only then schedules the run and
\* returns; the returned report has status new; no stage runs before the
\* report has been returned; when the first save fails nothing is scheduled.
C4_IngestThenSchedule ==
    \A i \in Ids :
        /\ (pc[i].stage = "ingestion" /\ pc[i].step \in {"save", "saved"}) =>
              /\ mem[i].status = "new"
              /\ mem[i].timeline = <<TimelineEvent("ingestion", "completed")>>
        /\ returned[i] # NoReport =>
              /\ returned[i].status = "new"
              /\ returned[i].timeline = <<TimelineEvent("ingestion", "completed")>>
        /\ background[i] => (lastSaved[i] # NoRow /\ returned[i] # NoReport)
        /\ (mem[i] # NoReport /\ Len(mem[i].timeline) > 1) =>
              (background[i] /\ returned[i] # NoReport)
        /\ failure[i].stage = "ingestion" =>
              (~background[i] /\ pc[i] = At("ingestion", "raised"))

\* The report has been returned and the run is scheduled; no stage has run.
C4_Witness ==
    \E i \in Ids :
        /\ returned[i] # NoReport
        /\ background[i]
        /\ pc[i] = At("triage", "body")
        /\ db[i].status = "new"

\* C5: for every alert payload that is a JSON object, also with labels or
\* annotations missing or null, handle_alert does not raise; the severity is
\* "unknown" when there is no severity label and the type "unknown" when no
\* label or annotation names one.
C5_IngestNeverRaises ==
    \A i \in Ids :
        /\ failure[i].cause # "payload"
        /\ mem[i] # NoReport =>
              /\ ~Truthy(MapOr(mem[i].raw_alert.labels, EmptyLabels).severity)
                    => mem[i].severity = "unknown"
              /\ (/\ ~Truthy(MapOr(mem[i].raw_alert.labels, EmptyLabels).alertname)
                  /\ ~Truthy(MapOr(mem[i].raw_alert.labels, EmptyLabels).incident_type)
                  /\ ~Truthy(MapOr(mem[i].raw_alert.annotations, EmptyAnnotations).incident_type))
                    => mem[i].incident_type = "unknown"

\* C6: in a pipeline run the stages start in the order triage, investigation,
\* analysis, recommendation, validation, none skipped and none twice, and a
\* stage starts only when the Store holds the report as the previous stage
\* completed it.
C6_StageOrder ==
    \A i \in Ids :
        mem[i] # NoReport =>
            LET started == StartedStages(mem[i].timeline)
            IN  /\ IsPrefix(started, PipelineStages)
                /\ started # <<>> => Stored(i) # NoReport
                /\ \A n \in DOMAIN started :
                       n > 1 => HasEvent(Stored(i).timeline, started[n - 1], "completed")

\* A run that has started its fifth stage.
C6_Witness ==
    \E i \in Ids :
        /\ mem[i] # NoReport
        /\ StartedStages(mem[i].timeline) = PipelineStages

\* C7: when a stage of a run raises, a failing save included, the Store still
\* holds exactly what the last save that returned wrote: nothing of the failed
\* stage is stored.
C7_AbortKeepsLastSave ==
    \A i \in Ids :
        pc[i].step = "raised" => db[i] = lastSaved[i]

\* C8: a failing collector never aborts the investigation stage.
C8_CollectorFailureTolerated ==
    \A i \in Ids : failure[i].cause # "collector"

\* C9: _investigate merges only when both collectors have finished, has
\* neither completed nor saved before that, and merges the k8s result and then
\* the deployment result after the evidence and links it had, whichever
\* collector finished first.
C9_JoinAll ==
    /\ [](\A i \in Ids :
            pc[i] = At("investigation", "gather") =>
                /\ ~HasEvent(mem[i].timeline, "investigation", "completed")
                /\ ~HasEvent(Stored(i).timeline, "investigation", "started"))
    /\ [][\A i \in Ids :
            (pc[i] = At("investigation", "gather") /\ pc'[i] = At("investigation", "save")) =>
                /\ tasks[i].k8s.done /\ tasks[i].deploy.done
                /\ mem'[i].evidence =
                       mem[i].evidence \o tasks[i].k8s.evidence \o tasks[i].deploy.evidence
                /\ mem'[i].links =
                       mem[i].links \o tasks[i].k8s.links \o tasks[i].deploy.links]_vars

\* Both collectors have finished without raising, the deployment collector
\* first, and the k8s collector has evidence and links to merge.
C9_Witness ==
    \E i \in Ids :
        /\ pc[i] = At("investigation", "gather")
        /\ tasks[i].order = <<"deploy", "k8s">>
        /\ ~tasks[i].k8s.raised /\ ~tasks[i].deploy.raised
        /\ tasks[i].k8s.links # <<>>
        /\ tasks[i].deploy.evidence # <<>>

\* C10: after the recommend stage's body the status is recommended; with no
\* provider result the actions are exactly one action of risk low and
\* confidence 0.4 and the hypotheses are those of the analyze stage; with a
\* result the actions are the provider's and the hypotheses are the provider's
\* only when it sent some. The stage's save stores that report.
C10_RecommendContract ==
    \A i \in Ids :
        /\ pc[i] = At("recommendation", "save") =>
              /\ mem[i].status = "recommended"
              /\ response[i] = NoResult =>
                    /\ Len(mem[i].recommended_actions) = 1
                    /\ mem[i].recommended_actions[1].risk = "low"
                    /\ mem[i].recommended_actions[1].confidence = 40
                    /\ mem[i].root_cause_hypotheses = _derive_hypotheses(mem[i].evidence)
              /\ response[i] # NoResult =>
                    /\ mem[i].recommended_actions = response[i].recommended_actions
                    /\ mem[i].root_cause_hypotheses =
                           IF response[i].root_cause_hypotheses # <<>>
                           THEN response[i].root_cause_hypotheses
                           ELSE _derive_hypotheses(mem[i].evidence)
        /\ pc[i] = At("validation", "body") =>
              /\ Stored(i) = Serialize(mem[i])
              /\ db[i].status = "recommended"

\* A provider result with actions and no hypotheses has been applied.
C10_Witness ==
    \E i \in Ids :
        /\ pc[i] = At("recommendation", "save")
        /\ response[i] # NoResult
        /\ response[i].root_cause_hypotheses = <<>>

\* ------------------------------------------------------------------------
\* Properties of the recommendation providers (under ProviderSpec)
\* ------------------------------------------------------------------------
\* The call has reached a remote provider's attempt loop.
InLoop ==
    /\ provider.variant \in {"openai", "bedrock"}
    /\ CredentialsPresent(provider.variant, provider.environ)

\* generate_recommendations has returned.
Responded == provider.pc \in {"responded", "returned"}

\* The attempts the retry budget allows that get a response.
Answered ==
    {k \in 1..(provider.max_retries + 1) : provider.attempts[k].ok}

\* The report _recommend makes of the fallback result.
FallbackReport ==
    RecommendApply(AnalyzedReport, RecommendationResult(<<FallbackAction>>, <<>>))

C12_UnparsableIsNoResult ==
    (Responded /\ provider.parsed.text \in {"no_brace", "reversed", "invalid_json"}) =>
        /\ provider.response = NoResult
        /\ provider.pc = "returned" =>
              /\ provider.recommendation = RecommendationResult(<<FallbackAction>>, <<>>)
              /\ provider.report.recommended_actions = <<FallbackAction>>
              /\ provider.report.status = "recommended"

\* An OpenAI call answered, on its last allowed attempt, by text whose last }
\* comes before its first {.
C12_Witness ==
    /\ provider.pc = "returned"
    /\ provider.variant = "openai"
    /\ provider.parsed.text = "reversed"
    /\ provider.calls = 3

\* C13: a parsed response with hypotheses and no actions makes the provider
\* return None: _recommend ends with the fallback action and with the
\* hypotheses of the analyze stage, not the provider's.
C13_HypothesesWithoutActions ==
    (/\ Responded
     /\ provider.parsed.text = "object"
     /\ provider.parsed.hypotheses # <<>>
     /\ provider.parsed.actions = <<>>) =>
        /\ provider.response = NoResult
        /\ provider.pc = "returned" =>
              /\ provider.report.recommended_actions = <<FallbackAction>>
              /\ provider.report.root_cause_hypotheses = AnalyzedReport.root_cause_hypotheses
              /\ provider.report.root_cause_hypotheses # <<>>

\* A Bedrock call answered by an object with one hypothesis and no action.
C13_Witness ==
    /\ provider.pc = "returned"
    /\ provider.variant = "bedrock"
    /\ provider.parsed.text = "object"
    /\ provider.parsed.hypotheses # <<>>
    /\ provider.parsed.actions = <<>>

\* The confidence the parsing is said to give a value.
NormalConfidence(value) ==
    IF value.type # "number" THEN 40
    ELSE IF value.value < 0 THEN 0
    ELSE IF value.value > 100 THEN 100
    ELSE value.value

\* C14: for both remote providers a parsed response with actions is returned
\* with every item normalized: a risk that is none of low, medium, high
\* becomes low, a confidence outside [0, 1] the nearest bound, a missing or
\* non-numeric confidence 0.4.
C14_ParsingNormalizes ==
    (Responded /\ provider.parsed.text = "object" /\ provider.parsed.actions # <<>>) =>
        /\ provider.response # NoResult
        /\ Len(provider.response.recommended_actions) = Len(provider.parsed.actions)
        /\ \A k \in DOMAIN provider.parsed.actions :
              /\ provider.parsed.actions[k].risk \notin {"low", "medium", "high", "HIGH"} =>
                    provider.response.recommended_actions[k].risk = "low"
              /\ provider.response.recommended_actions[k].confidence =
                    NormalConfidence(provider.parsed.actions[k].confidence)
        /\ Len(provider.response.root_cause_hypotheses) = Len(provider.parsed.hypotheses)
        /\ \A k \in DOMAIN provider.parsed.hypotheses :
              provider.response.root_cause_hypotheses[k].confidence =
                  NormalConfidence(provider.parsed.hypotheses[k].confidence)

\* C15: a remote provider without its credentials or settings returns None
\* without an HTTP attempt, and _recommend ends with the report it has when
\* every attempt fails: the fallback action alone, status recommended.
C15_MissingCredentials ==
    (/\ Responded
     /\ provider.variant \in {"openai", "bedrock"}
     /\ \/ provider.variant = "openai" /\ "OPENAI_API_KEY" \notin provider.environ
        \/ provider.variant = "bedrock" /\ "AWS_REGION" \notin provider.environ
        \/ provider.variant = "bedrock" /\ "BEDROCK_MODEL_ID" \notin provider.environ) =>
        /\ provider.calls = 0
        /\ provider.response = NoResult
        /\ provider.pc = "returned" =>
              /\ provider.report = FallbackReport
              /\ provider.report =
                     RecommendApply(AnalyzedReport,
                         recommend_actions(ProviderEnv("openai", TRUE, TRUE, AllFail, FALSE)))
              /\ provider.report.recommended_actions = <<FallbackAction>>
              /\ provider.report.status = "recommended"

\* A Bedrock call with AWS_REGION set and BEDROCK_MODEL_ID missing, against a
\* backend that would have answered.
C15_Witness ==
    /\ provider.pc = "returned"
    /\ provider.variant = "bedrock"
    /\ provider.environ = {"AWS_REGION"}
    /\ provider.attempts # AllFail

\* C16: every recommend_actions call of a process uses the provider variant
\* of the LLM_PROVIDER value the process started with, also when the variable
\* has changed since; a value that is neither openai nor bedrock, or no
\* value, selects the mock.
C16_VariantFixedAtStartup ==
    provider.variant # "none" =>
        provider.variant =
            IF provider.startup \in {"openai", "bedrock"} THEN provider.startup ELSE "mock"

\* ------------------------------------------------------------------------
\* Properties of the Store (under StoreSpec)
\* ------------------------------------------------------------------------
\* The ids some save has written.
SavedIds == DOMAIN store.saved

\* The rows of the incidents table with this incident id.
RowsOf(incident_id) ==
    {k \in DOMAIN store.rows : store.rows[k].row.incident_id = incident_id}

C18_UpsertLatestWrite ==
    \A id \in SavedIds :
        /\ Cardinality(RowsOf(id)) = 1
        /\ LET row == store.rows[RowOf(store.rows, id)].row
               saved == store.saved[id]
           IN  /\ row.correlation_id = saved.correlation_id
               /\ row.status = saved.status
               /\ row.incident_type = saved.incident_type
               /\ row.severity = saved.severity
               /\ row.summary = saved.summary
               /\ row.report_json = Serialize(saved)

\* C19: a listing has at most `limit` entries, no incident id twice, its
\* entries in the order of their last save, latest first, and no incident
\* left out that was saved later than a listed one.
C19_ListingOrder ==
    store.call.kind = "list" =>
        LET listing == store.call.listing
            listed == {listing[k].incident_id : k \in DOMAIN listing}
        IN  /\ Len(listing) = Min(store.call.limit, Cardinality(SavedIds))
            /\ Len(listing) <= store.call.limit
            /\ listed \subseteq SavedIds
            /\ Cardinality(listed) = Len(listing)
            /\ \A k \in 1..(Len(listing) - 1) :
                  store.saved_at[listing[k].incident_id]
                      >= store.saved_at[listing[k + 1].incident_id]
            /\ \A id \in SavedIds \ listed : \A other \in listed :
                  store.saved_at[id] <= store.saved_at[other]
            /\ \A k \in DOMAIN listing :
                  listing[k].status = store.saved[listing[k].incident_id].status

\* A listing of one entry out of two incidents: the incident inserted first,
\* saved again at the start of the next second, after the other one was
\* saved within the second before.
C19_Witness ==
    /\ store.call.kind = "list"
    /\ store.call.limit = 1
    /\ Len(store.rows) = 2
    /\ Len(store.call.listing) = 1
    /\ store.call.listing[1].incident_id = store.rows[1].row.incident_id
    /\ store.call.listing[1].updated_at = IsoFormat(TicksPerSecond)
    /\ store.rows[2].updated_at = IsoFormat(TicksPerSecond - 1)

\* C20: after every save the cache holds, under the key incident:<id> and
\* with the configured time-to-live, the serialized report the incidents
\* table holds for that id.
C20_CacheWriteThrough ==
    store.call.kind = "save" =>
        \E entry \in store.cache :
            /\ entry.key = <<"incident:", store.call.incident_id>>
            /\ entry.ttl = DefaultTtl
            /\ entry.value =
                   store.rows[RowOf(store.rows, store.call.incident_id)].row.report_json

\* ------------------------------------------------------------------------
\* Properties of the cache tier (under CacheSpec)
\* ------------------------------------------------------------------------
\* At the time of the last call the cache held an entry for the incident
\* whose expiry had not passed.
Unexpired(incident_id) ==
    \E e \in store.cache : e.key = incident_id /\ store.call.at <= e.expiry

\* C21: get_incident_report returns the cache entry of the id when an
\* unexpired one exists, without consulting the durable tier; without one
\* (none written, or expired) it returns the report of the durable tier.
C21_CacheReadThrough ==
    (store.call.kind = "get" /\ store.call.error = "none") =>
        LET id == store.call.incident_id
        IN  IF Unexpired(id)
            THEN /\ store.call.result = (CHOOSE e \in store.cache : e.key = id).value
                 /\ "db" \notin store.call.waits
            ELSE store.call.result = get_incident_report(TableView(store.rows), id)

C23_NotConnected ==
    /\ [](/\ (store.db = "none" /\ store.call.kind # "none") =>
                 /\ store.call.kind \in {"save", "get", "list"}
                 /\ store.call.error = "Store not connected (db)."
                 /\ store.call.result = NoReport
                 /\ store.call.listing = <<>>
                 /\ store.rows = <<>>
                 /\ store.saved = <<>>
           /\ store.call.error \in {"none", "Store not connected (db)."}
           /\ \A i \in Ids :
                 failure[i].cause = "not_connected" =>
                     /\ pc[i] = At("ingestion", "raised")
                     /\ returned[i] = NoReport
                     /\ ~background[i]
                     /\ db[i] = NoRow)
    /\ [][/\ (store'.call # store.call /\ store'.call.error # "none") =>
                 /\ store' = [store EXCEPT !.call = store'.call]
                 /\ UNCHANGED <<nextId, pc, mem, db, lastSaved, returned, background,
                                tasks, response, failure, analysis, provider, slack>>
           /\ \A i \in Ids :
                 (failure'[i] # failure[i] /\ failure'[i].cause = "not_connected") =>
                     UNCHANGED <<nextId, mem, db, lastSaved, returned, background,
                                 tasks, response, analysis, provider, store, slack>>]_vars

\* Before connect a listing was refused after an ingest had failed on its
\* save.
C23_Witness ==
    /\ store.db = "none"
    /\ store.call.kind = "list"
    /\ store.call.error = "Store not connected (db)."
    /\ nextId >= 1
    /\ failure[1].cause = "not_connected"
    /\ returned[1] = NoReport

\* ------------------------------------------------------------------------
\* Properties of reanalyze, the timing ledger and the notifier
\* ------------------------------------------------------------------------
\* C24: analyze_incident for an id whose report is persisted does not fail
\* on entering its first stage: it re-runs its stages on the persisted
\* report.
C24_ReanalyzeRuns ==
    analysis \in {"none", "incident_not_found", "started"}

\* C25: analyze_incident for an id without a row raises "incident_not_found"
\* and changes nothing: no stage runs, no row of any incident is written,
\* no notify call is made.
C25_ReanalyzeUnknown ==
    [][\A i \in Ids \cup {0} :
          (AnalyzeIncident(i) /\ (i \notin Ids \/ db[i] = NoRow)) =>
              /\ analysis' = "incident_not_found"
              /\ UNCHANGED <<nextId, pc, mem, db, lastSaved, returned, background,
                             tasks, response, failure, slack>>]_vars

\* A reanalyze of an unknown id ended "incident_not_found" while the row of
\* incident 1 was stored.
C25_Witness ==
    /\ analysis = "incident_not_found"
    /\ db[1] # NoRow
    /\ db[1].status = "investigating"

\* The versions of incident i's report: the one its run holds, the one
\* handle_alert returned and the stored one.
Versions(i) ==
    {r \in {mem[i], returned[i], Stored(i)} : r # NoReport}

\* C26: in every version of a report, every timing entry that has a
\* completion timestamp starts no later than it completes, so that its
\* duration is not negative, and the entries follow one another in
\* non-decreasing order of their start.
C26_TimingOrder ==
    \A i \in Ids : \A r \in Versions(i) :
        /\ \A k \in DOMAIN r.stage_timings :
              r.stage_timings[k].completed =>
                  /\ r.stage_timings[k].started_at <= r.stage_timings[k].completed_at
                  /\ duration_ms(r.stage_timings[k])[1] >= 0
        /\ \A k \in 1..(Len(r.stage_timings) - 1) :
              r.stage_timings[k].started_at <= r.stage_timings[k + 1].started_at

\* The stored report of a validated run whose investigation took a tick of
\* the clock (500 ms) and whose validation began later than its triage.
C26_Witness ==
    /\ Stored(1) # NoReport
    /\ Stored(1).status = "validated"
    /\ Len(Stored(1).stage_timings) = 5
    /\ duration_ms(Stored(1).stage_timings[2]) = <<500>>
    /\ Stored(1).stage_timings[1].started_at < Stored(1).stage_timings[5].started_at

\* C27: the completion of a stage (completed_at of its timing entry and
\* the completed marker of the timeline) is recorded only after the Store
\* has persisted the stage: a report whose stage is still to be saved, or
\* whose save has raised, carries no completed timing entry and no
\* completed marker for that stage.
C27_CompletionAfterPersistence ==
    \A i \in Ids :
        (/\ pc[i].stage \in {"triage", "investigation", "analysis",
                              "recommendation", "validation"}
         /\ \/ pc[i].step = "save"
            \/ /\ pc[i].step = "raised"
               /\ failure[i].cause \in {"save_rolled_back", "commit_refused",
                                         "not_connected"}) =>
            /\ ~HasEvent(mem[i].timeline, pc[i].stage, "completed")
            /\ \A k \in DOMAIN mem[i].stage_timings :
                  mem[i].stage_timings[k].stage = pc[i].stage =>
                      ~mem[i].stage_timings[k].completed

\* The stages and statuses of a timeline's events, in order.
Markers(timeline) ==
    [k \in DOMAIN timeline |-> <<timeline[k].stage, timeline[k].status>>]

\* The timeline and the timing ledger of the last stored version; empty
\* before the first save.
SavedTimeline(i) ==
    IF lastSaved[i] = NoRow THEN <<>> ELSE lastSaved[i].report_json.timeline

SavedTimings(i) ==
    IF lastSaved[i] = NoRow THEN <<>> ELSE lastSaved[i].report_json.stage_timings

\* C28: a stage execution that reaches its save has added, to the version
\* last stored, exactly one timing entry (its own, completed) and exactly
\* its started marker followed by its completed marker; the stored report
\* of a completed run has exactly the five timing entries of triage,
\* investigation, analysis, recommendation and validation, in that order
\* and all completed, and its timeline is the ingestion marker followed by
\* the five started/completed pairs in that order.
C28_LedgerShape ==
    \A i \in Ids :
        /\ (pc[i].step = "save" /\ pc[i].stage # "ingestion") =>
               /\ Markers(mem[i].timeline) =
                      Markers(SavedTimeline(i))
                          \o <<<<pc[i].stage, "started">>, <<pc[i].stage, "completed">>>>
               /\ Len(mem[i].stage_timings) = Len(SavedTimings(i)) + 1
               /\ IsPrefix(SavedTimings(i), mem[i].stage_timings)
               /\ mem[i].stage_timings[Len(mem[i].stage_timings)].stage = pc[i].stage
               /\ mem[i].stage_timings[Len(mem[i].stage_timings)].completed
        /\ pc[i] = At("validation", "complete") =>
               /\ [k \in DOMAIN Stored(i).stage_timings |->
                       <<Stored(i).stage_timings[k].stage,
                         Stored(i).stage_timings[k].completed>>]
                      = [k \in 1..5 |-> <<PipelineStages[k], TRUE>>]
               /\ Markers(Stored(i).timeline) =
                      <<<<"ingestion", "completed">>>>
                          \o [k \in 1..10 |->
                                 <<PipelineStages[(k + 1) \div 2],
                                   IF k % 2 = 1 THEN "started" ELSE "completed">>]

\* A run has completed and its stored timeline has eleven events.
C28_Witness ==
    /\ pc[1] = At("validation", "complete")
    /\ Len(Stored(1).timeline) = 11
    /\ Len(Stored(1).stage_timings) = 5
    /\ Stored(1).status = "validated"

\* C29: every version of a report written to the Store has the timeline
\* and the evidence list of the version stored before it as a prefix.
C29_AppendOnly ==
    [][\A i \in Ids :
          (db[i] # NoRow /\ db'[i] # db[i]) =>
              /\ db'[i] # NoRow
              /\ IsPrefix(db[i].report_json.timeline, db'[i].report_json.timeline)
              /\ IsPrefix(db[i].report_json.evidence, db'[i].report_json.evidence)]_vars

\* The stored report of a run past its investigation, which added evidence
\* to the two items of triage.
C29_Witness ==
    /\ Stored(1) # NoReport
    /\ Stored(1).status = "recommended"
    /\ Len(Stored(1).evidence) > 2
    /\ Len(Stored(1).timeline) = 9

\* The titles of the notify calls made for an incident, in order.
Titles(i) == [k \in DOMAIN slack[i] |-> slack[i][k].title]

\* C30: the notify calls of a run are, in order, incident created,
\* recommendation ready and validation complete, all three once the run has
\* completed; each is made only when the stored report holds the completion
\* of its stage (triage, recommendation, validation); a notify call,
\* failing or not, leaves the report as it was saved and the run going.
C30_Notifications ==
    /\ [](\A i \in Ids :
             /\ IsPrefix(Titles(i), <<"Incident created", "Recommendation ready",
                                      "Validation complete">>)
             /\ pc[i] = At("validation", "complete") => Len(slack[i]) = 3
             /\ \A stage \in {"triage", "recommendation", "validation"} :
                   (\E k \in DOMAIN slack[i] : slack[i][k].title = NotifyTitle(stage)) =>
                       /\ Stored(i) # NoReport
                       /\ HasEvent(Stored(i).timeline, stage, "completed"))
    /\ [][\A i \in Ids :
              slack'[i] # slack[i] =>
                  /\ Len(slack'[i]) = Len(slack[i]) + 1
                  /\ mem'[i] = mem[i]
                  /\ db'[i].report_json = Serialize(mem[i])
                  /\ pc'[i] = AfterSave(pc[i].stage)
                  /\ failure'[i] = NoFailure]_vars

\* A run has completed although its second notification failed; the stored
\* report is validated.
C30_Witness ==
    /\ pc[1] = At("validation", "complete")
    /\ Len(slack[1]) = 3
    /\ slack[1][1].outcome = "sent"
    /\ slack[1][2].outcome = "failed"
    /\ Stored(1).status = "validated"

\* ------------------------------------------------------------------------
\* GET /incidents (app/main.py, app/models.py)
\* ------------------------------------------------------------------------
\* response_model=list[IncidentSummary]: each dict list_incidents returned
\* is validated into an IncidentSummary. The dict has no time_to_*_ms key, so
\* the three fields take their default, None (the empty tuple).
IncidentSummary(entry) ==
    [incident_id |-> entry.incident_id,
     correlation_id |-> entry.correlation_id,
     status |-> entry.status,
     incident_type |-> entry.incident_type,
     severity |-> entry.severity,
     summary |-> entry.summary,
     updated_at |-> entry.updated_at,
     time_to_triage_ms |-> <<>>,
     time_to_investigate_ms |-> <<>>,
     time_to_recommend_ms |-> <<>>]

\* The latency of a stage as the timing ledger of a report gives it: the
\* duration of the stage's entry, no value without an entry.
LedgerLatency(report, stage) ==
    IF \E k \in DOMAIN report.stage_timings : report.stage_timings[k].stage = stage
    THEN duration_ms(report.stage_timings[
             CHOOSE k \in DOMAIN report.stage_timings :
                 report.stage_timings[k].stage = stage])
    ELSE <<>>

\* C31: every row of the answer to GET /incidents carries, for triage,
\* investigation and recommendation, the latency in milliseconds of that
\* stage's entry in the timing ledger of the incident's stored report, and
\* no value when the stage has not completed.
C31_ListLatency ==
    store.call.kind = "list" /\ store.call.error = "none" =>
        \A k \in DOMAIN store.call.listing :
            LET row == IncidentSummary(store.call.listing[k])
                report == TableView(store.rows)[row.incident_id].report_json
            IN  /\ row.time_to_triage_ms = LedgerLatency(report, "triage")
                /\ row.time_to_investigate_ms = LedgerLatency(report, "investigation")
                /\ row.time_to_recommend_ms = LedgerLatency(report, "recommendation")

\* C32: the triage stage appends exactly two evidence items to the report,
\* the first stating the severity ("unknown" when the report's severity is
\* empty) and the second the incident type, and sets the status to
\* investigating; its save stores that report and is followed by the
\* "Incident created" notification, which is not made when the save raises;
\* the report triage returns has status investigating.
C32_Triage ==
    /\ [](\A i \in Ids :
             pc[i] = At("investigation", "body") => mem[i].status = "investigating")
    /\ [][\A i \in Ids :
             /\ pc[i] = At("triage", "body") /\ pc'[i] # pc[i] =>
                   /\ pc'[i] = At("triage", "save")
                   /\ mem'[i].evidence =
                         mem[i].evidence \o
                         <<Evidence("triage",
                                    <<"Incident severity: ",
                                      IF mem[i].severity = ""
                                      THEN "unknown" ELSE mem[i].severity>>,
                                    "info"),
                           Evidence("triage",
                                    <<"Incident type: ", mem[i].incident_type>>,
                                    "info")>>
                   /\ mem'[i].status = "investigating"
             /\ pc[i] = At("triage", "save") /\ pc'[i] = At("investigation", "body") =>
                   /\ db'[i].report_json = Serialize(mem[i])
                   /\ db'[i].status = "investigating"
                   /\ mem'[i] = mem[i]
                   /\ Len(slack'[i]) = Len(slack[i]) + 1
                   /\ slack'[i][Len(slack'[i])].title = "Incident created"
             /\ pc[i] = At("triage", "save") /\ pc'[i] = At("triage", "raised") =>
                   slack'[i] = slack[i]]_vars

\* The triage of an alert with an empty severity has been saved and the
\* notification posted.
C32_Witness ==
    /\ pc[1] = At("investigation", "body")
    /\ mem[1].severity = ""
    /\ Len(mem[1].evidence) = 2
    /\ mem[1].evidence[1].detail = <<"Incident severity: ", "unknown">>
    /\ db[1].status = "investigating"
    /\ Len(slack[1]) = 1
    /\ slack[1][1] = [title |-> "Incident created", outcome |-> "sent"]

\* C33: a recommend_actions call served by the mock provider gets a result,
\* never None, and always the same one, with two recommended actions;
\* recommend_actions returns it as it is and the recommend stage installs
\* its actions, the fallback action not among them.
C33_MockProvider ==
    provider.variant = "mock" =>
        /\ provider.pc \in {"responded", "returned"} =>
              /\ provider.response # NoResult
              /\ provider.response.recommended_actions # <<>>
              /\ provider.response =
                    [kind |-> "result",
                     recommended_actions |->
                         <<RecommendedAction(
                               "Check pod events and rollout status for the affected namespace",
                               "low", 50),
                           RecommendedAction(
                               "Verify image pull secrets and recent deployment changes",
                               "low", 40)>>,
                     root_cause_hypotheses |->
                         <<RootCauseHypothesis("Mock: recent rollout or resource pressure",
                                               45)>>]
              /\ provider.calls = 0
        /\ provider.pc = "returned" =>
              /\ provider.recommendation = provider.response
              /\ provider.report.recommended_actions = provider.response.recommended_actions
              /\ \A k \in DOMAIN provider.report.recommended_actions :
                    provider.report.recommended_actions[k] # FallbackAction

\* The recommend stage has applied the mock provider's result, with no
\* credentials set and a backend that would fail every attempt.
C33_Witness ==
    /\ provider.variant = "mock"
    /\ provider.pc = "returned"
    /\ provider.environ = {}
    /\ provider.attempts = AllFail
    /\ Len(provider.report.recommended_actions) = 2
    /\ provider.report.status = "recommended"

\* The places where an evidence item's detail contains a fault signature.
SignatureMatches(evidence) ==
    {<<k, signature>> \in (DOMAIN evidence) \X {"CrashLoopBackOff", "ImagePullBackOff"} :
        Contains(evidence[k].detail, signature)}

\* C34: the analyze stage leaves the evidence as it is and replaces the
\* hypothesis list by one that depends on the evidence only: applied to its
\* own result it yields the same list again; without a fault signature in
\* the evidence the list is exactly the generic hypothesis of confidence
\* 0.3, whatever the list held before; with signatures it has one signature
\* hypothesis per match; the list is never empty after analyze.
C34_AnalyzeIdempotent ==
    /\ [](\A i \in Ids :
             pc[i] = At("analysis", "save") => mem[i].root_cause_hypotheses # <<>>)
    /\ [][\A i \in Ids :
             pc[i] = At("analysis", "body") /\ pc'[i] = At("analysis", "save") =>
                 LET before == mem[i]
                     after == mem'[i].root_cause_hypotheses
                     matches == SignatureMatches(before.evidence)
                 IN  /\ mem'[i].evidence = before.evidence
                     /\ before.timeline[Len(before.timeline)].stage = "analysis" =>
                           after = before.root_cause_hypotheses
                     /\ matches = {} =>
                           after = <<RootCauseHypothesis(
                                         "Investigate recent changes in workload", 30)>>
                     /\ matches # {} =>
                           /\ Len(after) = Cardinality(matches)
                           /\ \A k \in DOMAIN after :
                                 after[k] \in
                                     {RootCauseHypothesis("Pod crash loops detected", 60),
                                      RootCauseHypothesis("Image pull failures", 50)}]_vars

\* The analyze stage has run a second time, directly on its own result,
\* which held a signature hypothesis.
C34_Witness ==
    /\ pc[1] = At("analysis", "save")
    /\ Cardinality(TimingsOf(mem[1], "analysis")) = 2
    /\ ~HasEvent(mem[1].timeline, "recommendation", "started")
    /\ SignatureMatches(mem[1].evidence) # {}
    /\ Len(mem[1].root_cause_hypotheses) = Cardinality(SignatureMatches(mem[1].evidence))

\* The row of incident 1 is entirely what this save call wrote.
WrittenBy(rows, call) ==
    /\ Cardinality({k \in DOMAIN rows : rows[k].row.incident_id = 1}) = 1
    /\ LET r == rows[RowOf(rows, 1)]
       IN  /\ r.row.correlation_id = call.report.correlation_id
           /\ r.row.status = call.report.status
           /\ r.row.incident_type = call.report.incident_type
           /\ r.row.severity = call.report.severity
           /\ r.row.summary = call.report.summary
           /\ r.row.report_json = Serialize(call.report)
           /\ r.updated_at = IsoFormat(call.at)

StepOf(a) ==
    \/ pc'[a] # pc[a]
    \/ tasks'[a] # tasks[a]
    \/ mem'[a] # mem[a]
    \/ db'[a] # db[a]

StageOrder(stage) ==
    CHOOSE k \in 1..Len(PipelineStages) : PipelineStages[k] = stage

\* The run of incident i has ended: validation saved, or aborted on an error.
Terminated(i) ==
    \/ /\ pc[i] = At("validation", "complete")
       /\ lastSaved[i].status = "validated"
       /\ failure[i] = NoFailure
    \/ /\ pc[i].step = "raised"
       /\ failure[i].stage = pc[i].stage
       /\ failure[i].cause # "none"

\* C37: with every ready task run and every awaited call returning, a
\* scheduled pipeline run ends: its report is saved with status validated,
\* or the run has stopped at the stage where its first error was raised.
\* Until then the run only moves on within its stage or to the next stage;
\* it is never stopped without an error, and a run that has ended never
\* takes another step.
C37_Termination ==
    /\ \A i \in Ids : background[i] ~> Terminated(i)
    /\ [][\A i \in DOMAIN pc :
             /\ pc[i].step \in {"complete", "raised"} =>
                   /\ pc'[i] = pc[i]
                   /\ mem'[i] = mem[i]
                   /\ db'[i] = db[i]
             /\ background[i] /\ pc'[i] # pc[i] =>
                   /\ pc'[i].stage \in {PipelineStages[k] : k \in DOMAIN PipelineStages}
                   /\ StageOrder(pc'[i].stage) - StageOrder(pc[i].stage) \in {0, 1}
                   /\ pc'[i].step = "raised" =>
                         /\ pc'[i].stage = pc[i].stage
                         /\ failure'[i].cause # "none"
                   /\ pc'[i].stage # pc[i].stage => pc[i].step = "save"]_vars

\* A run whose first collector to finish was the cluster's has ended with
\* its report saved as validated.
C37_Witness ==
    /\ background[1]
    /\ pc[1] = At("validation", "complete")
    /\ lastSaved[1].status = "validated"
    /\ lastSaved[1].report_json.evidence[3].source = "k8s"
    /\ failure[1] = NoFailure

\* The fields of a report that are set at ingestion.
Identity(report) ==
    [incident_id |-> report.incident_id,
     correlation_id |-> report.correlation_id,
     incident_type |-> report.incident_type,
     severity |-> report.severity,
     summary |-> report.summary,
     created_at |-> report.created_at,
     raw_alert |-> report.raw_alert]

\* C38: the incident id, correlation id, incident type, severity, summary,
\* creation timestamp and raw alert payload of a report are those set at
\* ingestion in every stored version: no step of a stage and no reanalyze
\* changes them in the report a run holds or in the stored report, the
\* first save stores them as the run holds them, and the stored report
\* agrees in them with the report handle_alert returned.
C38_Frame ==
    /\ [](\A i \in Ids :
             /\ Stored(i) # NoReport /\ returned[i] # NoReport =>
                   Identity(Stored(i)) = Identity(returned[i])
             /\ Stored(i) # NoReport /\ mem[i] # NoReport =>
                   Identity(Stored(i)) = Identity(mem[i]))
    /\ [][\A i \in Ids :
             /\ mem[i] # NoReport =>
                   /\ mem'[i] # NoReport
                   /\ Identity(mem'[i]) = Identity(mem[i])
             /\ Stored(i) # NoReport =>
                   /\ Stored(i)' # NoReport
                   /\ Identity(Stored(i)') = Identity(Stored(i))]_vars

\* A report ingested with an empty severity after the clock had moved has
\* been saved as validated, and a reanalyze of it has been asked for.
C38_Witness ==
    /\ pc[1] = At("validation", "complete")
    /\ Stored(1).status = "validated"
    /\ Stored(1).severity = ""
    /\ Stored(1).created_at > 0
    /\ Stored(1).raw_alert.labels.severity = ""
    /\ analysis = "AttributeError"

\* The attempts the retry budget allows whose HTTP call is answered with a
\* success status.
Succeeded ==
    {k \in 1..(provider.max_retries + 1) :
        provider.attempts[k].ok \/ provider.attempts[k].content.text = "no_envelope"}

\* C39: in a remote provider only a failed HTTP call consumes a retry: once
\* generate_recommendations has returned from the attempt loop, the first
\* attempt that was answered with a success status is the last attempt made,
\* and the result is the parse of that response, None when it cannot be
\* parsed or has no actions, whatever retry budget remains.
C39_RetryOnlyOnFailure ==
    (InLoop /\ Responded /\ Succeeded # {}) =>
        LET first == CHOOSE k \in Succeeded : \A j \in Succeeded : k <= j
            met == provider.attempts[first]
        IN  /\ provider.calls = first
            /\ provider.response =
                  IF met.ok THEN ParseResponse(provider.variant, met.content)
                  ELSE NoResult

====
